---- MODULE Spec2Model ----
(***************************************************************************)
(* The Open WebUI plugin collection:                                       *)
(*   providers/azure_openai_api_pipeline.py       (Azure OpenAI SDK)       *)
(*   providers/azure_ai_inference_pipeline.py     (Azure AI Inference)     *)
(*   providers/azure_openai_manifold_pipeline.py  (Azure OpenAI REST)      *)
(*   functions/prompt_enhancer.py                 (inlet filter)           *)
(*   functions/visualize_data.py                  (chart action)           *)
(*   tools/plantuml-diagrams.py                   (PlantUML tool)          *)
(*   tools/bbc-news.py                            (BBC news tool)          *)
(*   rag/llamaindex_ollama_github_pipeline.py     (GitHub RAG)             *)
(*   rag/llamaindex_ollama_gitlab_pipeline.py     (GitLab RAG)             *)
(* Each module is a state machine of its own, with a specification of its  *)
(* own: the modules share no state.  The host calls a module's handlers;   *)
(* what a provider, a server or an emitter answers is chosen by the        *)
(* environment.                                                            *)
(***************************************************************************)
EXTENDS Integers, Sequences, FiniteSets, TLC

\* ------------------------------------------------------------------ bounds
\* largest number of keys of a request body the host passes
MaxBodyKeys == 2
\* largest number of clients acquired by lifecycle handlers in one behaviour
MaxClients == 2

\* ----------------------------------------------------------- Python values
\* A Python value: its type, for a dict the type and text of its "id" entry
\* ("absent" when it has none), and the text str() gives for it.
PyVal(kind, id_kind, id_txt, repr) ==
    [kind |-> kind, id_kind |-> id_kind, id_txt |-> id_txt, repr |-> repr]

PyNone == PyVal("NoneType", "-", "-", "None")

PyStr(s) == PyVal("str", "-", "-", s)

PyInt(s) == PyVal("int", "-", "-", s)

PyFloat(s) == PyVal("float", "-", "-", s)

PyBool(s) == PyVal("bool", "-", "-", s)

PyObj(s) == PyVal("list", "-", "-", s)

PyDict(id_kind, id_txt, repr) == PyVal("dict", id_kind, id_txt, repr)

\* bool(v)
Truthy(v) ==
    ~ \/ v.kind = "NoneType"
      \/ v.kind = "bool" /\ v.repr = "False"
      \/ v.kind \in {"int", "float"} /\ v.repr = "0"
      \/ v.kind = "str" /\ v.repr = ""

\* d.get(k, default)
Get(d, k, default) == IF k \in DOMAIN d THEN d[k] ELSE default

\* d with d[k] = v
Put(d, k, v) == [x \in (DOMAIN d) \cup {k} |-> IF x = k THEN v ELSE d[x]]

\* {k: v for k, v in d.items() if k in keep}
Restrict(d, keep) == [x \in (DOMAIN d) \cap keep |-> d[x]]

EmptyDict == [x \in {} |-> PyNone]

\* --------------------------------------------------- the host's inputs
UserValues ==
    { PyStr("u1"),
      PyDict("str", "u1", "{'id': 'u1', 'name': 'bob'}"),
      PyDict("int", "7", "{'id': 7}"),
      PyDict("absent", "-", "{'name': 'bob'}"),
      PyNone,
      PyInt("7") }

BodyKeys ==
    { "stream", "temperature", "top_p", "presence_penalty", "frequency_penalty",
      "logprobs", "top_logprobs", "logit_bias", "max_tokens",
      "max_completion_tokens", "user", "messages", "model", "seed", "functions" }

ValuesOf(k) ==
    CASE k = "user" -> UserValues
      [] k = "stream" -> {PyBool("True"), PyBool("False")}
      [] k = "max_tokens" -> {PyInt("0"), PyInt("100")}
      [] k = "max_completion_tokens" -> {PyInt("200")}
      [] k = "temperature" -> {PyFloat("0.5")}
      [] k = "top_p" -> {PyFloat("0.9")}
      [] k = "model" -> {PyStr("m")}
      [] k \in {"messages", "functions"} -> {PyObj("[...]")}
      [] k = "logit_bias" -> {PyDict("absent", "-", "{}")}
      [] k = "logprobs" -> {PyBool("True")}
      [] OTHER -> {PyInt("1")}

RECURSIVE DictsOver(_)
DictsOver(K) ==
    IF K = {} THEN {EmptyDict}
    ELSE LET k == CHOOSE x \in K : TRUE
         IN  {Put(d, k, v) : d \in DictsOver(K \ {k}), v \in ValuesOf(k)}

Bodies ==
    UNION {DictsOver(K) : K \in {S \in SUBSET BodyKeys : Cardinality(S) <= MaxBodyKeys}}

\* model ids are strings of characters
O1 == <<"o", "1">>

O1Mini == <<"o", "1", "-", "m", "i", "n", "i">>

O3Mini == <<"o", "3", "-", "m", "i", "n", "i">>

Gpt4o == <<"g", "p", "t", "-", "4", "o">>

ModelIds == {O1, O1Mini, O3Mini, Gpt4o}

\* model_id.startswith("o")
StartsWithO(m) == Len(m) >= 1 /\ m[1] = "o"

\* the messages argument of pipe
Messages == PyObj("messages")

\* ------------------------------------------------ the user remapping
\* body["user"] = body["user"]["id"] if "id" in body["user"] else str(body["user"])
\* The result is [raised, body]: `"id" in x` raises TypeError for a value
\* that is no container.
remap_user(body) ==
    IF "user" \in DOMAIN body /\ body["user"].kind # "str"
    THEN LET u == body["user"] IN
         IF u.kind # "dict"
         THEN [raised |-> "TypeError", body |-> body]
         ELSE IF u.id_kind # "absent"
              THEN [raised |-> "none",
                    body |-> Put(body, "user", PyVal(u.id_kind, "-", "-", u.id_txt))]
              ELSE [raised |-> "none", body |-> Put(body, "user", PyStr(u.repr))]
    ELSE [raised |-> "none", body |-> body]

\* ------------------------------------------------ provider responses
\* what response.choices[0].message.content raises on a response object
ContentRaises(response) ==
    CASE response = "empty_choices" -> "IndexError"
      [] response = "no_message" -> "AttributeError"
      [] OTHER -> "none"

Responses == {"ok", "empty_choices", "no_message"}

\* ------------------------------------------------ the SDK's exceptions
\* the exception classes the SDK pipeline imports, their base class in the
\* openai package, and ValueError for an exception that is not the SDK's
Base(c) ==
    CASE c = "APIError" -> "OpenAIError"
      [] c \in {"APIConnectionError", "APIStatusError"} -> "APIError"
      [] c \in {"BadRequestError", "AuthenticationError", "RateLimitError",
                "InternalServerError", "NotFoundError"} -> "APIStatusError"
      [] OTHER -> "Exception"

RECURSIVE IsInstance(_, _)
IsInstance(c, cls) ==
    \/ c = cls
    \/ c # "Exception" /\ IsInstance(Base(c), cls)

Raised ==
    { "APIError", "AuthenticationError", "APIConnectionError", "BadRequestError",
      "RateLimitError", "InternalServerError", "NotFoundError", "ValueError" }

VARIABLES
    \* --- Azure OpenAI SDK pipeline: the Pipeline object
    DISABLED,        \* valves.DISABLED
    client,          \* self.client: the number of the client object held
    \* --- one invocation of its pipe
    sdk_pc,          \* "idle", "try", "except", "done"
    sdk_body_in,     \* the body as the host passed it
    sdk_body,        \* the body dict, which pipe updates in place
    sdk_model_id,
    stream,          \* the local stream
    parameters,      \* the keyword arguments of chat.completions.create
    response,        \* "None" or the response object's shape
    retry_count,
    delay,           \* the local delay: [bound, v]
    sdk_exc,         \* the exception the except clause caught
    first_exc,       \* the first exception create raised in this invocation
    error,           \* what handle_openai_error returned for it
    calls,           \* calls of chat.completions.create in this invocation
    call_clients,    \* the client each of these calls was made on
    slept,           \* the delays slept, in order
    sdk_result,      \* what pipe returned or raised: [kind, detail]
    \* --- Azure AI Inference pipeline: one invocation of its pipe
    inf_pc,          \* "idle", "call", "done"
    inf_body_in,     \* the body as the host passed it
    inf_body,        \* the body dict, which pipe updates in place
    inf_model_id,
    inf_stream,      \* the local stream
    inf_parameters,  \* the keyword arguments of client.complete
    inf_response,    \* "None" or the response object's shape
    inf_result,      \* what pipe returned or raised: [kind, detail]
    \* --- Azure OpenAI manifold (REST) pipeline: the Pipeline object
    man_api_key,     \* whether valves.AZURE_OPENAI_API_KEY is a non-empty string
    \* --- one invocation of its pipe
    man_pc,          \* "idle", "post", "done"
    man_body_in,     \* the body as the host passed it
    man_body,        \* the body dict, which pipe updates in place
    man_model_id,
    filtered_body,   \* the local filtered_body
    man_posted,      \* the json arguments requests.post was called with
    man_r,           \* the local r: "unbound" or the HTTP response's shape
    man_result,      \* what pipe returned or raised: [kind, detail]
    \* --- stream_response: the generator pipe returns for a streamed answer
    gen_pc,          \* "idle" (no generator), "running", "exhausted"
    chunks,          \* the chunks the provider's response has delivered, in order
    yielded,         \* what the generator has yielded: [chunk, content], in order
    \* --- prompt enhancer: the Filter object
    show_status,           \* valves.show_status
    show_enhanced_prompt,  \* valves.show_enhanced_prompt
    self_request,          \* self.__request__: the request stored (0 for None)
    self_user,             \* self.__user__: the user stored (0 for None)
    \* --- its inlet invocations, each a coroutine: functions of the invocation
    enh_pc,          \* "idle", "status_sent", "completion", "success_status_sent",
                     \* "last_emit_sent", "done"
    enh_request,     \* the __request__ argument
    enh_user,        \* the __user__ argument (0 for None)
    enh_messages_in, \* body["messages"] as the host passed it
    enh_messages,    \* body["messages"], which inlet updates in place
    enh_issued,      \* the generate_chat_completion calls made: [request, user,
                     \* context, prompt]
    enh_events,      \* the events given to the __event_emitter__ argument
    enh_result,      \* "none", "body" (returned) or "raised"
    enh_outcome,     \* what generate_chat_completion came to, "-" before it has
    \* --- PlantUML tool: the Tools object
    self_emitter,    \* self.emitter: the emitter stored (0 for None)
    \* --- its generate_diagram invocations, each a coroutine
    tool_pc,         \* "idle", "processing_sent", "message_sent",
                     \* "success_sent", "done"
    tool_data_in,    \* the data argument
    tool_data,       \* the local data, which the try block completes
    tool_emitter,    \* the __event_emitter__ argument (0 for None)
    tool_image,      \* plantuml_image.type: "-" before the server was called
    tool_fail,       \* the _fail coroutines created: their errmsg, in order
    tool_events,     \* per emitter, the events it was given: [by, type,
                     \* description, done]
    tool_result,     \* NoReturn, the value returned, or the exception raised
    \* --- GitHub RAG pipeline: the Pipeline object
    gh_valves,       \* self.valves
    gh_indexes,      \* self.indexes: [none, dict], dict from repo id to index
    gh_ext_excludes, \* self.ext_excludes: from repo id to filter (or NoneStr)
    gh_ext_includes, \* self.ext_includes
    gh_dir_excludes, \* self.dir_excludes
    gh_dir_includes, \* self.dir_includes
    gh_pipelines,    \* self.pipelines: [id, name], in order
    gh_pc,           \* "idle", or "indexing" inside _init_embeddings' loop
    gh_todo,         \* the repos the loop of _init_embeddings has yet to take
    gh_read,         \* the ids whose repository the last on_valves_updated read
    gh_repos_current,\* the valves are those the last call of get_repos read
    gh_enabled_set,  \* ENABLED was set to true after the most recent on_startup
    gh_result,       \* the last call of the host: [op, arg, outcome]
    \* --- GitLab RAG pipeline: the Pipeline object
    gl_valves,       \* self.valves
    gl_indexes,      \* self.indexes: [none, dict], dict from repo id to index
                     \* or "None"
    gl_gitlab_client,\* self.gitlab_client: "None" or "client"
    gl_pipelines,    \* self.pipelines: [id, name], in order
    gl_pc,           \* "idle", or "indexing" inside _init_embeddings' loop
    gl_todo,         \* the repos the loop of _init_embeddings has yet to take
    gl_read,         \* the ids whose repository the last on_valves_updated read
    gl_loaded,       \* the project, path and ref it passed to the readers, in order
    gl_enabled_set,  \* ENABLED was set to true after the most recent on_startup
    gl_result,       \* the last call of the host: [op, arg, outcome]
    \* --- BBC news tool: the invocations of its two functions in progress
    news_pc,         \* per invocation: "idle", the await it is suspended at, "done"
    news_call,       \* per invocation: [op, arg], the function and its argument
    news_events,     \* per invocation: the events given to its __event_emitter__
    news_result,     \* per invocation: NewsNone, what it returned, or NewsRaised
    \* --- chart action: the Action object and one invocation of action
    chart_show_status, \* valves.show_status
    chart_pc,        \* "idle", the await the invocation is suspended at, "done"
    chart_emitter,   \* the __event_emitter__ argument: "None" or "emitter"
    chart_user,      \* the __user__ argument: "None" or "user"
    chart_messages_in, \* body["messages"] as the host passed it
    chart_messages,  \* body["messages"] now
    chart_outcome,   \* what the try block came to, "-" before it has run
    chart_events,    \* the events given to the emitter
    chart_result     \* "none", "body" (returned) or "raised"

sdk_vars ==
    << DISABLED, client, sdk_pc, sdk_body_in, sdk_body, sdk_model_id, stream,
       parameters, response, retry_count, delay, sdk_exc, first_exc, error, calls,
       call_clients, slept, sdk_result >>

inf_vars ==
    << inf_pc, inf_body_in, inf_body, inf_model_id, inf_stream, inf_parameters,
       inf_response, inf_result >>

man_vars ==
    << man_api_key, man_pc, man_body_in, man_body, man_model_id, filtered_body,
       man_posted, man_r, man_result >>

gen_vars == << gen_pc, chunks, yielded >>

enh_vars ==
    << show_status, show_enhanced_prompt, self_request, self_user, enh_pc,
       enh_request, enh_user, enh_messages_in, enh_messages, enh_issued,
       enh_events, enh_result, enh_outcome >>

tool_vars ==
    << self_emitter, tool_pc, tool_data_in, tool_data, tool_emitter, tool_image,
       tool_fail, tool_events, tool_result >>

gh_vars ==
    << gh_valves, gh_indexes, gh_ext_excludes, gh_ext_includes, gh_dir_excludes,
       gh_dir_includes, gh_pipelines, gh_pc, gh_todo, gh_read, gh_repos_current,
       gh_enabled_set, gh_result >>

gl_vars ==
    << gl_valves, gl_indexes, gl_gitlab_client, gl_pipelines, gl_pc, gl_todo,
       gl_read, gl_loaded, gl_enabled_set, gl_result >>

news_vars == << news_pc, news_call, news_events, news_result >>

chart_vars ==
    << chart_show_status, chart_pc, chart_emitter, chart_user, chart_messages_in,
       chart_messages, chart_outcome, chart_events, chart_result >>

vars ==
    << sdk_vars, inf_vars, man_vars, gen_vars, enh_vars, tool_vars, gh_vars,
       gl_vars, news_vars, chart_vars >>

\* the variables of the other modules, which a module's actions leave alone
outside_sdk == << inf_vars, man_vars, gen_vars, enh_vars, tool_vars, gh_vars,
       gl_vars, news_vars, chart_vars >>

outside_inf == << sdk_vars, man_vars, gen_vars, enh_vars, tool_vars, gh_vars,
       gl_vars, news_vars, chart_vars >>

outside_man == << sdk_vars, inf_vars, gen_vars, enh_vars, tool_vars, gh_vars,
       gl_vars, news_vars, chart_vars >>

outside_gen == << sdk_vars, inf_vars, man_vars, enh_vars, tool_vars, gh_vars,
       gl_vars, news_vars, chart_vars >>

outside_enh == << sdk_vars, inf_vars, man_vars, gen_vars, tool_vars, gh_vars,
       gl_vars, news_vars, chart_vars >>

outside_tool == << sdk_vars, inf_vars, man_vars, gen_vars, enh_vars, gh_vars,
       gl_vars, news_vars, chart_vars >>

outside_gh ==
    << sdk_vars, inf_vars, man_vars, gen_vars, enh_vars, tool_vars, gl_vars,
       news_vars, chart_vars >>

outside_news ==
    << sdk_vars, inf_vars, man_vars, gen_vars, enh_vars, tool_vars, gh_vars,
       gl_vars, chart_vars >>

outside_chart ==
    << sdk_vars, inf_vars, man_vars, gen_vars, enh_vars, tool_vars, gh_vars,
       gl_vars, news_vars >>

outside_gl ==
    << sdk_vars, inf_vars, man_vars, gen_vars, enh_vars, tool_vars, gh_vars,
       news_vars, chart_vars >>

\* =====================================================================
\* Azure OpenAI SDK pipeline
\* =====================================================================
OPENAI_RETRY_MAX == 3

Unbound == [bound |-> FALSE, v |-> 0]

NoError == [msg |-> "-", retry |-> FALSE]

NoResult == [kind |-> "none", detail |-> "-"]

\* a new AzureOpenAI client object
openai_client(c) == c + 1

\* the locals of an invocation that has not started
SdkIdle ==
    /\ sdk_pc = "idle"
    /\ sdk_body_in = EmptyDict
    /\ sdk_body = EmptyDict
    /\ sdk_model_id = <<>>
    /\ stream = PyNone
    /\ parameters = EmptyDict
    /\ response = "None"
    /\ retry_count = 0
    /\ delay = Unbound
    /\ sdk_exc = "none"
    /\ first_exc = "none"
    /\ error = NoError
    /\ calls = 0
    /\ call_clients = <<>>
    /\ slept = <<>>
    /\ sdk_result = NoResult

\* __init__ with the default valves: DISABLED is False and a client is acquired
SdkInit ==
    /\ DISABLED = FALSE
    /\ client = openai_client(0)
    /\ SdkIdle

\* handle_openai_error: the branches in the order written
handle_openai_error(e) ==
    IF IsInstance(e, "APIError")
    THEN [msg |-> "API Error", retry |-> TRUE, reacquire |-> FALSE]
    ELSE IF IsInstance(e, "AuthenticationError")
    THEN [msg |-> "Authentication Error", retry |-> TRUE, reacquire |-> TRUE]
    ELSE IF IsInstance(e, "APIConnectionError")
    THEN [msg |-> "Connection Error", retry |-> FALSE, reacquire |-> FALSE]
    ELSE IF IsInstance(e, "BadRequestError")
    THEN [msg |-> "Invalid Request Error", retry |-> FALSE, reacquire |-> FALSE]
    ELSE IF IsInstance(e, "RateLimitError")
    THEN [msg |-> "Request Exceeded Rate Limit", retry |-> TRUE, reacquire |-> FALSE]
    ELSE IF IsInstance(e, "InternalServerError")
    THEN [msg |-> "Service Unavailable Error", retry |-> FALSE, reacquire |-> FALSE]
    ELSE [msg |-> "Unknown Error", retry |-> FALSE, reacquire |-> FALSE]

\* the parameters dict pipe builds from the body
sdk_parameters(model_id, body) ==
    LET o_model == StartsWithO(model_id)
        base ==
            [k \in {"model", "messages", "temperature", "top_p", "frequency_penalty",
                    "presence_penalty", "user"} |->
                CASE k = "model" -> PyStr("model_id")
                  [] k = "messages" -> Messages
                  [] k = "temperature" -> Get(body, "temperature", PyInt("1"))
                  [] k = "top_p" -> Get(body, "top_p", PyInt("1"))
                  [] k = "frequency_penalty" -> Get(body, "frequency_penalty", PyInt("0"))
                  [] k = "presence_penalty" -> Get(body, "presence_penalty", PyInt("0"))
                  [] OTHER -> Get(body, "user", PyNone)]
        st == IF o_model THEN PyBool("False") ELSE Get(body, "stream", PyBool("False"))
    IN  IF o_model
        THEN Put(base, "max_completion_tokens",
                 IF Truthy(Get(body, "max_tokens", PyNone))
                 THEN body["max_tokens"]
                 ELSE Get(body, "max_completion_tokens", PyInt("4000")))
        ELSE Put(Put(base, "max_tokens", Get(body, "max_tokens", PyInt("4000"))),
                 "stream", st)

\* the local stream
sdk_stream(model_id, body) ==
    IF StartsWithO(model_id) THEN PyBool("False")
    ELSE Get(body, "stream", PyBool("False"))

\* pipe up to the first pass of the while test
sdk_pipe ==
    /\ sdk_pc = "idle"
    /\ \E body \in Bodies, model_id \in ModelIds :
         /\ sdk_body_in' = body
         /\ sdk_model_id' = model_id
         /\ IF DISABLED
            THEN /\ sdk_result' = [kind |-> "content", detail |-> "WARNING: Pipeline DISABLED"]
                 /\ sdk_pc' = "done"
                 /\ sdk_body' = body
                 /\ UNCHANGED << stream, parameters >>
            ELSE LET r == remap_user(body) IN
                 /\ sdk_body' = r.body
                 /\ IF r.raised # "none"
                    THEN /\ sdk_result' = [kind |-> "raised", detail |-> r.raised]
                         /\ sdk_pc' = "done"
                         /\ UNCHANGED << stream, parameters >>
                    ELSE /\ stream' = sdk_stream(model_id, r.body)
                         /\ parameters' = sdk_parameters(model_id, r.body)
                         /\ sdk_result' = NoResult
                         /\ sdk_pc' = "try"
    /\ UNCHANGED << DISABLED, client, response, retry_count, delay, sdk_exc, first_exc,
                    error, calls, call_clients, slept,
                    outside_sdk >>

\* what the provider does with one call
ProviderOutcomes == Responses \cup Raised

\* the try block of one pass of the loop
sdk_create ==
    /\ sdk_pc = "try"
    /\ \E outcome \in ProviderOutcomes :
         /\ retry_count' = retry_count + 1
         /\ calls' = calls + 1
         /\ call_clients' = Append(call_clients, client)
         /\ IF outcome \in Raised
            THEN /\ sdk_exc' = outcome
                 /\ first_exc' = IF first_exc = "none" THEN outcome ELSE first_exc
                 /\ sdk_pc' = "except"
                 /\ UNCHANGED << response, sdk_result >>
            ELSE /\ response' = outcome
                 /\ UNCHANGED first_exc
                 /\ IF Truthy(stream)
                    THEN /\ sdk_result' = [kind |-> "stream", detail |-> "-"]
                         /\ sdk_pc' = "done"
                         /\ UNCHANGED sdk_exc
                    ELSE IF ContentRaises(outcome) = "none"
                    THEN /\ sdk_result' = [kind |-> "content", detail |-> "content"]
                         /\ sdk_pc' = "done"
                         /\ UNCHANGED sdk_exc
                    ELSE /\ sdk_exc' = ContentRaises(outcome)
                         /\ sdk_pc' = "except"
                         /\ UNCHANGED sdk_result
    /\ UNCHANGED << DISABLED, client, sdk_body_in, sdk_body, sdk_model_id, stream,
                    parameters, delay, error, slept,
                    outside_sdk >>

\* sdk_except with the retry taken on every retryable error: no sleep, and
\* neither test of retry_count against OPENAI_RETRY_MAX
sdk_except_no_ceiling ==
    /\ sdk_pc = "except"
    /\ LET err == handle_openai_error(sdk_exc) IN
       /\ error' = [msg |-> err.msg, retry |-> err.retry]
       /\ IF response = "None" /\ err.retry
          THEN sdk_pc' = "try" /\ UNCHANGED sdk_result
          ELSE /\ sdk_result' = [kind |-> "errmsg", detail |-> err.msg]
               /\ sdk_pc' = "done"
    /\ UNCHANGED << DISABLED, client, sdk_body_in, sdk_body, sdk_model_id, stream,
                    parameters, response, retry_count, delay, sdk_exc, first_exc,
                    calls, call_clients, slept,
                    outside_sdk >>

\* the except clause, and the while test that follows a retry
sdk_except ==
    /\ sdk_pc = "except"
    /\ LET err == handle_openai_error(sdk_exc)
           c == IF err.reacquire THEN openai_client(client) ELSE client
       IN
       /\ error' = [msg |-> err.msg, retry |-> err.retry]
       /\ client' = c
       /\ IF response # "None"
          THEN \* errmsg += response.choices[0].message.content
               /\ sdk_result' = [kind |-> "raised", detail |-> ContentRaises(response)]
               /\ sdk_pc' = "done"
               /\ UNCHANGED << response, delay, slept >>
          ELSE IF err.retry /\ retry_count < OPENAI_RETRY_MAX
          THEN IF ~ delay.bound
               THEN \* time.sleep(delay): delay is assigned nowhere before
                    /\ sdk_result' = [kind |-> "raised", detail |-> "UnboundLocalError"]
                    /\ sdk_pc' = "done"
                    /\ UNCHANGED << response, delay, slept >>
               ELSE /\ slept' = Append(slept, delay.v)
                    /\ delay' = [bound |-> TRUE, v |-> delay.v * 2]
                    /\ response' = "None"
                    /\ IF retry_count < OPENAI_RETRY_MAX
                       THEN sdk_pc' = "try" /\ UNCHANGED sdk_result
                       ELSE /\ sdk_pc' = "done"
                            /\ sdk_result' = [kind |-> "None", detail |-> "-"]
          ELSE /\ sdk_result' = [kind |-> "errmsg", detail |-> err.msg]
               /\ sdk_pc' = "done"
               /\ UNCHANGED << response, delay, slept >>
    /\ UNCHANGED << DISABLED, sdk_body_in, sdk_body, sdk_model_id, stream, parameters,
                    retry_count, sdk_exc, first_exc, calls, call_clients,
                    outside_sdk >>

\* pipe has returned or raised: its locals are gone
sdk_return ==
    /\ sdk_pc = "done"
    /\ sdk_pc' = "idle"
    /\ sdk_body_in' = EmptyDict
    /\ sdk_body' = EmptyDict
    /\ sdk_model_id' = <<>>
    /\ stream' = PyNone
    /\ parameters' = EmptyDict
    /\ response' = "None"
    /\ retry_count' = 0
    /\ delay' = Unbound
    /\ sdk_exc' = "none"
    /\ first_exc' = "none"
    /\ error' = NoError
    /\ calls' = 0
    /\ call_clients' = <<>>
    /\ slept' = <<>>
    /\ sdk_result' = NoResult
    /\ UNCHANGED << DISABLED, client,
                    outside_sdk >>

\* on_valves_updated, the host having set the valves
sdk_on_valves_updated ==
    /\ sdk_pc = "idle"
    /\ \E d \in BOOLEAN :
         /\ DISABLED' = d
         /\ IF d THEN UNCHANGED client
            ELSE client < MaxClients /\ client' = openai_client(client)
    /\ UNCHANGED << sdk_pc, sdk_body_in, sdk_body, sdk_model_id, stream, parameters,
                    response, retry_count, delay, sdk_exc, first_exc, error, calls,
                    call_clients, slept, sdk_result,
                    outside_sdk >>

\* sdk_on_startup without the DISABLED test
sdk_on_startup_acquires ==
    /\ sdk_pc = "idle"
    /\ client < MaxClients
    /\ client' = openai_client(client)
    /\ UNCHANGED << DISABLED, sdk_pc, sdk_body_in, sdk_body, sdk_model_id, stream,
                    parameters, response, retry_count, delay, sdk_exc, first_exc, error,
                    calls, call_clients, slept, sdk_result,
                    outside_sdk >>

\* on_startup
sdk_on_startup ==
    /\ sdk_pc = "idle"
    /\ IF DISABLED THEN UNCHANGED client
       ELSE client < MaxClients /\ client' = openai_client(client)
    /\ UNCHANGED << DISABLED, sdk_pc, sdk_body_in, sdk_body, sdk_model_id, stream,
                    parameters, response, retry_count, delay, sdk_exc, first_exc, error,
                    calls, call_clients, slept, sdk_result,
                    outside_sdk >>

\* =====================================================================
\* Azure AI Inference pipeline
\* =====================================================================
InfInit ==
    /\ inf_pc = "idle"
    /\ inf_body_in = EmptyDict
    /\ inf_body = EmptyDict
    /\ inf_model_id = <<>>
    /\ inf_stream = PyNone
    /\ inf_parameters = EmptyDict
    /\ inf_response = "None"
    /\ inf_result = NoResult

\* the local stream: model_id in ("o1", "o1-mini") switches it off
inf_stream_of(model_id, body) ==
    IF model_id \in {O1, O1Mini} THEN PyBool("False")
    ELSE Get(body, "stream", PyBool("False"))

\* the parameters dict pipe builds from the body
inf_parameters_of(model_id, body) ==
    [k \in {"model", "messages", "stream", "temperature", "max_tokens", "top_p",
            "frequency_penalty", "presence_penalty"} |->
        CASE k = "model" -> PyStr("model_id")
          [] k = "messages" -> Messages
          [] k = "stream" -> inf_stream_of(model_id, body)
          [] k = "temperature" -> Get(body, "temperature", PyInt("1"))
          [] k = "max_tokens" -> Get(body, "max_tokens", PyInt("4000"))
          [] k = "top_p" -> Get(body, "top_p", PyInt("1"))
          [] k = "frequency_penalty" -> Get(body, "frequency_penalty", PyInt("0"))
          [] OTHER -> Get(body, "presence_penalty", PyInt("0"))]

\* pipe up to the try block
inf_pipe ==
    /\ inf_pc = "idle"
    /\ \E body \in Bodies, model_id \in ModelIds :
         LET r == remap_user(body) IN
         /\ inf_body_in' = body
         /\ inf_model_id' = model_id
         /\ inf_body' = r.body
         /\ IF r.raised # "none"
            THEN /\ inf_result' = [kind |-> "raised", detail |-> r.raised]
                 /\ inf_pc' = "done"
                 /\ UNCHANGED << inf_stream, inf_parameters >>
            ELSE /\ inf_stream' = inf_stream_of(model_id, r.body)
                 /\ inf_parameters' = inf_parameters_of(model_id, r.body)
                 /\ inf_result' = NoResult
                 /\ inf_pc' = "call"
    /\ UNCHANGED << inf_response, outside_inf >>

\* the try block and its except clause
inf_complete ==
    /\ inf_pc = "call"
    /\ \E outcome \in Responses \cup {"raise"} :
         IF outcome = "raise"
         THEN \* response is still None
              /\ inf_result' = [kind |-> "errmsg", detail |-> "Error: e"]
              /\ UNCHANGED inf_response
         ELSE /\ inf_response' = outcome
              /\ IF Truthy(inf_stream)
                 THEN inf_result' = [kind |-> "stream", detail |-> "-"]
                 ELSE IF ContentRaises(outcome) = "none"
                 THEN inf_result' = [kind |-> "content", detail |-> "content"]
                 ELSE \* except: text = response.choices[0].message.content
                      inf_result' = [kind |-> "raised", detail |-> ContentRaises(outcome)]
    /\ inf_pc' = "done"
    /\ UNCHANGED << inf_body_in, inf_body, inf_model_id, inf_stream, inf_parameters,
                    outside_inf >>

\* pipe has returned or raised: its locals are gone
inf_return ==
    /\ inf_pc = "done"
    /\ inf_pc' = "idle"
    /\ inf_body_in' = EmptyDict
    /\ inf_body' = EmptyDict
    /\ inf_model_id' = <<>>
    /\ inf_stream' = PyNone
    /\ inf_parameters' = EmptyDict
    /\ inf_response' = "None"
    /\ inf_result' = NoResult
    /\ UNCHANGED outside_inf

\* =====================================================================
\* Azure OpenAI manifold (REST) pipeline
\* =====================================================================
allowed_params ==
    { "messages", "temperature", "role", "content", "contentPart", "contentPartImage",
      "enhancements", "dataSources", "n", "stream", "stop", "max_tokens",
      "presence_penalty", "frequency_penalty", "logit_bias", "user", "function_call",
      "funcions", "tools", "tool_choice", "top_p", "log_probs", "top_logprobs",
      "response_format", "seed" }

o_model_not_allowed_params ==
    { "stream", "temperature", "top_p", "presence_penalty", "frequency_penalty",
      "logprobs", "top_logprobs", "logit_bias", "max_tokens" }

\* __init__ with the default environment: no API key
ManInit ==
    /\ man_api_key = FALSE
    /\ man_pc = "idle"
    /\ man_body_in = EmptyDict
    /\ man_body = EmptyDict
    /\ man_model_id = <<>>
    /\ filtered_body = EmptyDict
    /\ man_posted = <<>>
    /\ man_r = "unbound"
    /\ man_result = NoResult

\* the body after the o-model branch has added max_completion_tokens to it
man_body_of(model_id, body) ==
    IF StartsWithO(model_id) /\ "max_tokens" \in DOMAIN body
        /\ "max_completion_tokens" \notin DOMAIN body
    THEN Put(body, "max_completion_tokens", body["max_tokens"])
    ELSE body

\* man_filtered_body without the o-model test
man_filtered_body_keeps_o_params(model_id, body) ==
    Restrict(man_body_of(model_id, body), allowed_params)

\* filtered_body
man_filtered_body(model_id, body) ==
    IF StartsWithO(model_id)
    THEN Restrict(man_body_of(model_id, body),
                  allowed_params \ o_model_not_allowed_params)
    ELSE Restrict(body, allowed_params)

\* pipe up to the try block
man_pipe ==
    /\ man_pc = "idle"
    /\ \E body \in Bodies, model_id \in ModelIds, token \in {"ok", "raise"} :
         LET r == remap_user(body) IN
         /\ man_body_in' = body
         /\ man_model_id' = model_id
         /\ man_api_key => token = "ok"
         /\ IF token = "raise"
            THEN \* self.bearer_token_provider() raises
                 /\ man_result' = [kind |-> "raised", detail |-> "ClientAuthenticationError"]
                 /\ man_pc' = "done"
                 /\ man_body' = body
                 /\ UNCHANGED filtered_body
            ELSE IF r.raised # "none"
            THEN /\ man_result' = [kind |-> "raised", detail |-> r.raised]
                 /\ man_pc' = "done"
                 /\ man_body' = r.body
                 /\ UNCHANGED filtered_body
            ELSE /\ man_body' = man_body_of(model_id, r.body)
                 /\ filtered_body' = man_filtered_body(model_id, r.body)
                 /\ man_result' = NoResult
                 /\ man_pc' = "post"
    /\ UNCHANGED << man_api_key, man_posted, man_r, outside_man >>

\* what requests.post does: it raises, or it returns a response with status
\* 200 and a JSON body, status 200 and another body, or an error status
HttpOutcomes == {"raise", "ok_json", "ok_not_json", "error_status"}

\* the try block and its except clause
man_post ==
    /\ man_pc = "post"
    /\ man_posted' = Append(man_posted, filtered_body)
    /\ \E outcome \in HttpOutcomes :
         IF outcome = "raise"
         THEN \* except: `if r` reads r, which was never assigned
              /\ UNCHANGED man_r
              /\ man_result' = [kind |-> "raised", detail |-> "UnboundLocalError"]
         ELSE /\ man_r' = outcome
              /\ IF outcome = "error_status"
                 THEN \* raise_for_status() raises; bool(r) is r.ok, False here
                      man_result' = [kind |-> "errmsg", detail |-> "Error: e"]
                 ELSE IF "stream" \notin DOMAIN man_body
                 THEN \* body["stream"] raises KeyError; bool(r) is True
                      man_result' = [kind |-> "errmsg", detail |-> "Error: e (text)"]
                 ELSE IF Truthy(man_body["stream"])
                 THEN man_result' = [kind |-> "iter_lines", detail |-> "-"]
                 ELSE IF outcome = "ok_json"
                 THEN man_result' = [kind |-> "json", detail |-> "-"]
                 ELSE \* r.json() raises; bool(r) is True
                      man_result' = [kind |-> "errmsg", detail |-> "Error: e (text)"]
    /\ man_pc' = "done"
    /\ UNCHANGED << man_api_key, man_body_in, man_body, man_model_id, filtered_body,
                    outside_man >>

\* pipe has returned or raised: its locals are gone
man_return ==
    /\ man_pc = "done"
    /\ man_pc' = "idle"
    /\ man_body_in' = EmptyDict
    /\ man_body' = EmptyDict
    /\ man_model_id' = <<>>
    /\ filtered_body' = EmptyDict
    /\ man_posted' = <<>>
    /\ man_r' = "unbound"
    /\ man_result' = NoResult
    /\ UNCHANGED << man_api_key, outside_man >>

\* on_valves_updated, the host having set the valves
man_on_valves_updated ==
    /\ man_pc = "idle"
    /\ \E k \in BOOLEAN : man_api_key' = k
    /\ UNCHANGED << man_pc, man_body_in, man_body, man_model_id, filtered_body,
                    man_posted, man_r, man_result, outside_man >>

\* =====================================================================
\* stream_response (the same generator in the SDK and the Inference pipeline)
\* =====================================================================
\* largest number of chunks of one streamed response
MaxChunks == 3

\* a chunk: the length of chunk.choices (-1 for None) and, when there is a
\* first choice, its delta.content
Chunk(n, content) == [nchoices |-> n, content |-> content]

Chunks ==
    {Chunk(-1, PyNone), Chunk(0, PyNone)}
    \cup {Chunk(n, c) : n \in {1, 2},
                         c \in {PyNone, PyStr(""), PyStr("a"), PyStr("b")}}

GenInit ==
    /\ gen_pc = "idle"
    /\ chunks = <<>>
    /\ yielded = <<>>

\* the loop body without the test of content
stream_response_yield_any(chunk) ==
    IF chunk.nchoices > 0 THEN <<chunk.content>> ELSE <<>>

\* what one pass of the loop body yields for a chunk
stream_response_yield(chunk) ==
    IF chunk.nchoices # -1 /\ chunk.nchoices # 0 /\ chunk.nchoices > 0
    THEN IF Truthy(chunk.content) THEN <<chunk.content>> ELSE <<>>
    ELSE <<>>

\* pipe returns self.stream_response(response)
gen_start ==
    /\ gen_pc = "idle"
    /\ gen_pc' = "running"
    /\ chunks' = <<>>
    /\ yielded' = <<>>
    /\ UNCHANGED outside_gen

\* the response delivers its next chunk and the loop body runs on it
gen_chunk ==
    /\ gen_pc = "running"
    /\ Len(chunks) < MaxChunks
    /\ \E chunk \in Chunks :
         /\ chunks' = Append(chunks, chunk)
         /\ yielded' = yielded \o
                [i \in 1 .. Len(stream_response_yield(chunk)) |->
                    [chunk |-> Len(chunks) + 1,
                     content |-> stream_response_yield(chunk)[i]]]
    /\ UNCHANGED << gen_pc, outside_gen >>

\* the response has no more chunks: the generator ends
gen_stop ==
    /\ gen_pc = "running"
    /\ gen_pc' = "exhausted"
    /\ UNCHANGED << chunks, yielded, outside_gen >>

\* the host drops the generator
gen_close ==
    /\ gen_pc = "exhausted"
    /\ gen_pc' = "idle"
    /\ chunks' = <<>>
    /\ yielded' = <<>>
    /\ UNCHANGED outside_gen

\* =====================================================================
\* Prompt enhancer filter (functions/prompt_enhancer.py)
\* =====================================================================
\* largest number of inlet invocations in progress on one Filter object
MaxInlets == 2
\* largest number of messages of a conversation
MaxMessages == 2

Invocations == 1 .. MaxInlets

\* a chat message
Msg(role, content) == [role |-> role, content |-> content]

MsgSet == {Msg(r, c) : r \in {"user", "assistant"}, c \in {"a", "b"}}

\* the conversations the host passes
Conversations == UNION {[1 .. n -> MsgSet] : n \in 0 .. MaxMessages}

\* the conversation of each of several invocations in progress together
OneQuestion == {<<Msg("user", "a")>>}

\* the text the enhancing model answers with
Enhanced == "enhanced"

\* get_last_user_message(messages): the content of the last message whose
\* role is user, None when there is none
RECURSIVE get_last_user_message(_)
get_last_user_message(messages) ==
    IF messages = <<>> THEN "None"
    ELSE IF messages[Len(messages)].role = "user"
         THEN messages[Len(messages)].content
         ELSE get_last_user_message(SubSeq(messages, 1, Len(messages) - 1))

\* context_messages
context_messages(messages) ==
    LET user_message == get_last_user_message(messages)
    IN  SelectSeq(messages,
                  LAMBDA msg : msg.role # "user" \/ msg.content # user_message)

\* an event given to the emitter
StatusEvent(description, done) ==
    [type |-> "status", description |-> description, done |-> done]

MessageEvent == [type |-> "message", description |-> Enhanced, done |-> "-"]

\* __init__
EnhInit ==
    /\ show_status = FALSE
    /\ show_enhanced_prompt = FALSE
    /\ self_request = 0
    /\ self_user = 0
    /\ enh_pc = [p \in Invocations |-> "idle"]
    /\ enh_request = [p \in Invocations |-> 0]
    /\ enh_user = [p \in Invocations |-> 0]
    /\ enh_messages_in = [p \in Invocations |-> <<>>]
    /\ enh_messages = [p \in Invocations |-> <<>>]
    /\ enh_issued = [p \in Invocations |-> <<>>]
    /\ enh_events = [p \in Invocations |-> <<>>]
    /\ enh_result = [p \in Invocations |-> "none"]
    /\ enh_outcome = [p \in Invocations |-> "-"]

\* the host sets the valves; no inlet is in progress
enh_set_valves ==
    /\ \A p \in Invocations : enh_pc[p] = "idle"
    /\ \E st \in BOOLEAN, en \in BOOLEAN :
         /\ show_status' = st
         /\ show_enhanced_prompt' = en
    /\ UNCHANGED << self_request, self_user, enh_pc, enh_request, enh_user,
                    enh_messages_in, enh_messages, enh_issued, enh_events,
                    enh_result, enh_outcome, outside_enh >>

\* the call of generate_chat_completion, with the request and the user read
\* from self at the call
enh_call(req, usr, messages) ==
    [request |-> req, user |-> usr, context |-> context_messages(messages),
     prompt |-> get_last_user_message(messages)]

\* inlet from its entry to its first await: the status event when
\* show_status is set, the call of generate_chat_completion otherwise
inlet(p, conversations) ==
    /\ enh_pc[p] = "idle"
    /\ \E messages \in conversations, usr \in {0, p} :
         /\ enh_request' = [enh_request EXCEPT ![p] = p]
         /\ enh_user' = [enh_user EXCEPT ![p] = usr]
         /\ enh_messages_in' = [enh_messages_in EXCEPT ![p] = messages]
         /\ enh_messages' = [enh_messages EXCEPT ![p] = messages]
         /\ self_request' = p
         /\ self_user' = usr
         /\ IF show_status
            THEN /\ enh_events' = [enh_events EXCEPT ![p] =
                        <<StatusEvent("Enhancing the prompt...", "False")>>]
                 /\ enh_pc' = [enh_pc EXCEPT ![p] = "status_sent"]
                 /\ enh_issued' = [enh_issued EXCEPT ![p] = <<>>]
            ELSE /\ enh_events' = [enh_events EXCEPT ![p] = <<>>]
                 /\ enh_pc' = [enh_pc EXCEPT ![p] = "completion"]
                 /\ enh_issued' = [enh_issued EXCEPT ![p] =
                        <<enh_call(p, usr, messages)>>]
    /\ enh_result' = [enh_result EXCEPT ![p] = "none"]
    /\ enh_outcome' = [enh_outcome EXCEPT ![p] = "-"]
    /\ UNCHANGED << show_status, show_enhanced_prompt, outside_enh >>

\* inlet resumed after the first status event, up to the call of
\* generate_chat_completion
inlet_after_status(p) ==
    /\ enh_pc[p] = "status_sent"
    /\ enh_issued' = [enh_issued EXCEPT ![p] =
            Append(@, enh_call(self_request, self_user, enh_messages[p]))]
    /\ enh_pc' = [enh_pc EXCEPT ![p] = "completion"]
    /\ UNCHANGED << show_status, show_enhanced_prompt, self_request, self_user,
                    enh_request, enh_user, enh_messages_in, enh_messages,
                    enh_events, enh_result, enh_outcome, outside_enh >>

\* what generate_chat_completion does: it returns a completion, returns
\* something without choices[0].message.content, or raises
Completions == {"ok", "malformed", "ValueError", "Exception"}

\* messages[-1]["content"] = enhanced_prompt
replace_last(messages) ==
    [messages EXCEPT ![Len(messages)] = Msg(@.role, Enhanced)]

\* lines 181-189: the exception the try block raises before its first
\* emit, "none" when it raises none. A response without
\* choices[0].message.content makes the subscripts of line 185 raise, an
\* empty conversation makes messages[-1] raise (KeyError, IndexError or
\* TypeError: none is a ValueError)
raised_in_try(outcome, messages) ==
    IF outcome = "ok" /\ messages # <<>> THEN "none"
    ELSE IF outcome = "ValueError" THEN "ValueError"
    ELSE "Exception"

\* only the clause `except ValueError`
caught_value_error_only(exc) == exc = "ValueError"

\* lines 217 and 229: the clauses `except ValueError` and `except Exception`
caught(exc) == exc \in {"ValueError", "Exception"}

\* inlet resumed with the outcome of generate_chat_completion, up to its
\* next await or its return
inlet_completion(p) ==
    /\ enh_pc[p] = "completion"
    /\ \E outcome \in Completions :
         LET exc == raised_in_try(outcome, enh_messages[p])
         IN  /\ enh_outcome' = [enh_outcome EXCEPT ![p] = outcome]
             /\ IF exc = "none"
                THEN /\ enh_messages' = [enh_messages EXCEPT ![p] = replace_last(@)]
                     /\ IF show_status
                        THEN /\ enh_events' = [enh_events EXCEPT ![p] =
                                   Append(@, StatusEvent("Prompt successfully enhanced.", "True"))]
                             /\ enh_pc' = [enh_pc EXCEPT ![p] = "success_status_sent"]
                             /\ UNCHANGED enh_result
                        ELSE IF show_enhanced_prompt
                        THEN /\ enh_events' = [enh_events EXCEPT ![p] = Append(@, MessageEvent)]
                             /\ enh_pc' = [enh_pc EXCEPT ![p] = "last_emit_sent"]
                             /\ UNCHANGED enh_result
                        ELSE /\ enh_pc' = [enh_pc EXCEPT ![p] = "done"]
                             /\ enh_result' = [enh_result EXCEPT ![p] = "body"]
                             /\ UNCHANGED enh_events
                ELSE IF ~caught(exc)
                THEN \* no clause matches: the exception leaves inlet
                     /\ enh_pc' = [enh_pc EXCEPT ![p] = "done"]
                     /\ enh_result' = [enh_result EXCEPT ![p] = "raised"]
                     /\ UNCHANGED << enh_messages, enh_events >>
                ELSE \* except ValueError / except Exception
                     /\ UNCHANGED enh_messages
                     /\ IF show_status
                        THEN /\ enh_events' = [enh_events EXCEPT ![p] =
                                   Append(@, StatusEvent(
                                       IF exc = "ValueError" THEN "Error: ..."
                                       ELSE "An unexpected error occurred.", "True"))]
                             /\ enh_pc' = [enh_pc EXCEPT ![p] = "last_emit_sent"]
                             /\ UNCHANGED enh_result
                        ELSE /\ enh_pc' = [enh_pc EXCEPT ![p] = "done"]
                             /\ enh_result' = [enh_result EXCEPT ![p] = "body"]
                             /\ UNCHANGED enh_events
    /\ UNCHANGED << show_status, show_enhanced_prompt, self_request, self_user,
                    enh_request, enh_user, enh_messages_in, enh_issued, outside_enh >>

\* inlet resumed after the status event of a success
inlet_after_success_status(p) ==
    /\ enh_pc[p] = "success_status_sent"
    /\ IF show_enhanced_prompt
       THEN /\ enh_events' = [enh_events EXCEPT ![p] = Append(@, MessageEvent)]
            /\ enh_pc' = [enh_pc EXCEPT ![p] = "last_emit_sent"]
            /\ UNCHANGED enh_result
       ELSE /\ enh_pc' = [enh_pc EXCEPT ![p] = "done"]
            /\ enh_result' = [enh_result EXCEPT ![p] = "body"]
            /\ UNCHANGED enh_events
    /\ UNCHANGED << show_status, show_enhanced_prompt, self_request, self_user,
                    enh_request, enh_user, enh_messages_in, enh_messages, enh_issued,
                    enh_outcome, outside_enh >>

\* inlet resumed after its last event: return body
inlet_after_last_emit(p) ==
    /\ enh_pc[p] = "last_emit_sent"
    /\ enh_pc' = [enh_pc EXCEPT ![p] = "done"]
    /\ enh_result' = [enh_result EXCEPT ![p] = "body"]
    /\ UNCHANGED << show_status, show_enhanced_prompt, self_request, self_user,
                    enh_request, enh_user, enh_messages_in, enh_messages, enh_issued,
                    enh_events, enh_outcome, outside_enh >>

\* the host has the body back: the coroutine is gone
inlet_return(p) ==
    /\ enh_pc[p] = "done"
    /\ enh_pc' = [enh_pc EXCEPT ![p] = "idle"]
    /\ enh_request' = [enh_request EXCEPT ![p] = 0]
    /\ enh_user' = [enh_user EXCEPT ![p] = 0]
    /\ enh_messages_in' = [enh_messages_in EXCEPT ![p] = <<>>]
    /\ enh_messages' = [enh_messages EXCEPT ![p] = <<>>]
    /\ enh_issued' = [enh_issued EXCEPT ![p] = <<>>]
    /\ enh_events' = [enh_events EXCEPT ![p] = <<>>]
    /\ enh_result' = [enh_result EXCEPT ![p] = "none"]
    /\ enh_outcome' = [enh_outcome EXCEPT ![p] = "-"]
    /\ UNCHANGED << show_status, show_enhanced_prompt, self_request, self_user,
                    outside_enh >>

\* =====================================================================
\* tools/plantuml-diagrams.py: the PlantUML tool
\* =====================================================================
MaxTools == 2

MaxLines == 1

ToolInvocations == 1 .. MaxTools

StartUml == "@startuml"

EndUml == "@enduml"

\* PlantUML code, line by line; the empty sequence is the empty string
Codes ==
    UNION { [1 .. n -> {"Alice -> Bob"}] : n \in 0 .. MaxLines }
    \cup { <<StartUml>> \o c \o <<EndUml>> : c \in [1 .. MaxLines -> {"Alice -> Bob"}] }

\* data.strip().startswith("@startuml")
startswith_startuml(data) == Len(data) >= 1 /\ data[1] = StartUml

\* data.strip().endswith("@enduml")
endswith_enduml(data) == Len(data) >= 1 /\ data[Len(data)] = EndUml

\* lines 223-226
complete_code(data) ==
    LET started == IF ~startswith_startuml(data) THEN <<StartUml>> \o data ELSE data
    IN  IF ~endswith_enduml(started) THEN started \o <<EndUml>> ELSE started

\* what the PlantUML server call can come to
ServerOutcomes == {"image", "status_error", "exception"}

\* Utils.generate_plantuml_image: every failure is turned into an
\* EncodedImage of type "error"
generate_plantuml_image(outcome) ==
    IF outcome = "image"
    THEN [type |-> "html", data |-> "data:image"]
    ELSE [type |-> "error", data |-> "PlantUML server error"]

\* what delivering an event to the host's emitter can come to
EmitOutcomes == {"delivered", "raises"}

ToolEvent(p, type, description, done) ==
    [by |-> p, type |-> type, description |-> description, done |-> done]

NoReturn == [kind |-> "-", plantuml_code |-> <<>>, status |-> "-"]

\* a function that ends without a return statement
ReturnsNone == [kind |-> "None", plantuml_code |-> <<>>, status |-> "-"]

ToolRaised == [kind |-> "raised", plantuml_code |-> <<>>, status |-> "-"]

\* json.dumps({"plantuml_code": data, "status": "done"})
JsonDone(data) == [kind |-> "json", plantuml_code |-> data, status |-> "done"]

\* __init__
ToolInit ==
    /\ self_emitter = 0
    /\ tool_pc = [p \in ToolInvocations |-> "idle"]
    /\ tool_data_in = [p \in ToolInvocations |-> <<>>]
    /\ tool_data = [p \in ToolInvocations |-> <<>>]
    /\ tool_emitter = [p \in ToolInvocations |-> 0]
    /\ tool_image = [p \in ToolInvocations |-> "-"]
    /\ tool_fail = [p \in ToolInvocations |-> <<>>]
    /\ tool_events = [e \in ToolInvocations |-> <<>>]
    /\ tool_result = [p \in ToolInvocations |-> NoReturn]

\* self._fail(errmsg): _fail is a coroutine function and the call is not
\* awaited, so the call creates a coroutine object that never runs: no
\* event is emitted, nothing is returned, and the caller goes on
self_fail(created, errmsg) == Append(created, errmsg)

\* await self.emitter(event): the event goes to the emitter self.emitter
\* holds at that moment
emit_to_self_emitter(emitter, event) ==
    [tool_events EXCEPT ![emitter] = Append(@, event)]

\* the except branch of lines 266-270: self._fail is not awaited and the
\* function ends without a return statement
tool_except(p, fail) ==
    /\ tool_fail' = [tool_fail EXCEPT ![p] = self_fail(fail, "Error generating PlantUML")]
    /\ tool_result' = [tool_result EXCEPT ![p] = ReturnsNone]
    /\ tool_pc' = [tool_pc EXCEPT ![p] = "done"]

\* lines 222-247: the try block up to its first await
tool_try(p, emitter, data, fail, events) ==
    \E outcome \in ServerOutcomes, emit \in EmitOutcomes :
        LET code == complete_code(data)
            plantuml_image == generate_plantuml_image(outcome)
            failed == IF plantuml_image.type = "error"
                      THEN self_fail(fail, "**ERROR:** PlantUML server error")
                      ELSE fail
        IN  /\ tool_data' = [tool_data EXCEPT ![p] = code]
            /\ tool_image' = [tool_image EXCEPT ![p] = plantuml_image.type]
            /\ IF emitter # 0
               THEN IF emit = "delivered"
                    THEN /\ tool_events' =
                              [events EXCEPT ![emitter] =
                                  Append(@, ToolEvent(p, "message", plantuml_image.data, "-"))]
                         /\ tool_fail' = [tool_fail EXCEPT ![p] = failed]
                         /\ tool_pc' = [tool_pc EXCEPT ![p] = "message_sent"]
                         /\ UNCHANGED tool_result
                    ELSE /\ tool_events' = events
                         /\ tool_except(p, failed)
               ELSE /\ emit = "delivered"
                    /\ tool_events' = events
                    /\ tool_fail' = [tool_fail EXCEPT ![p] = failed]
                    /\ tool_result' = [tool_result EXCEPT ![p] = JsonDone(code)]
                    /\ tool_pc' = [tool_pc EXCEPT ![p] = "done"]

\* generate_diagram, from its call to its first await
generate_diagram(p) ==
    \E data \in Codes, emitter \in {0, p}, emit \in EmitOutcomes :
        LET fail == IF data = <<>>
                    THEN self_fail(<<>>, "No PlantUML code provided")
                    ELSE <<>>
        IN  /\ tool_pc[p] = "idle"
            /\ self_emitter' = emitter
            /\ tool_emitter' = [tool_emitter EXCEPT ![p] = emitter]
            /\ tool_data_in' = [tool_data_in EXCEPT ![p] = data]
            /\ IF emitter # 0
               THEN IF emit = "delivered"
                    THEN /\ tool_events' =
                              emit_to_self_emitter(emitter,
                                  ToolEvent(p, "status", "Processing the PlantUML code...", "False"))
                         /\ tool_fail' = [tool_fail EXCEPT ![p] = fail]
                         /\ tool_pc' = [tool_pc EXCEPT ![p] = "processing_sent"]
                         /\ tool_data' = [tool_data EXCEPT ![p] = data]
                         /\ UNCHANGED << tool_image, tool_result >>
                    ELSE /\ tool_fail' = [tool_fail EXCEPT ![p] = fail]
                         /\ tool_result' = [tool_result EXCEPT ![p] = ToolRaised]
                         /\ tool_pc' = [tool_pc EXCEPT ![p] = "done"]
                         /\ tool_data' = [tool_data EXCEPT ![p] = data]
                         /\ UNCHANGED << tool_image, tool_events >>
               ELSE /\ emit = "delivered"
                    /\ tool_try(p, emitter, data, fail, tool_events)
            /\ UNCHANGED outside_tool

\* the coroutine resumes after the "processing" status event
generate_diagram_after_processing(p) ==
    /\ tool_pc[p] = "processing_sent"
    /\ tool_try(p, self_emitter, tool_data[p], tool_fail[p], tool_events)
    /\ UNCHANGED << self_emitter, tool_data_in, tool_emitter, outside_tool >>

\* lines 248-264: the coroutine resumes after the image message event
generate_diagram_after_message(p) ==
    /\ tool_pc[p] = "message_sent"
    /\ \E emit \in EmitOutcomes :
        IF self_emitter # 0
        THEN IF emit = "delivered"
             THEN /\ tool_events' =
                       emit_to_self_emitter(self_emitter,
                           ToolEvent(p, "status",
                                     "The PlantUML diagram has been successfully created.",
                                     "True"))
                  /\ tool_pc' = [tool_pc EXCEPT ![p] = "success_sent"]
                  /\ UNCHANGED << tool_fail, tool_result >>
             ELSE /\ tool_except(p, tool_fail[p])
                  /\ UNCHANGED tool_events
        ELSE /\ emit = "delivered"
             /\ tool_result' = [tool_result EXCEPT ![p] = JsonDone(tool_data[p])]
             /\ tool_pc' = [tool_pc EXCEPT ![p] = "done"]
             /\ UNCHANGED << tool_fail, tool_events >>
    /\ UNCHANGED << self_emitter, tool_data_in, tool_data, tool_emitter,
                    tool_image, outside_tool >>

\* lines 258-264: the coroutine resumes after the "successfully created"
\* status event and returns
generate_diagram_after_success(p) ==
    /\ tool_pc[p] = "success_sent"
    /\ tool_result' = [tool_result EXCEPT ![p] = JsonDone(tool_data[p])]
    /\ tool_pc' = [tool_pc EXCEPT ![p] = "done"]
    /\ UNCHANGED << self_emitter, tool_data_in, tool_data, tool_emitter,
                    tool_image, tool_fail, tool_events, outside_tool >>

\* the host has taken the result, and the events of the invocation
generate_diagram_return(p) ==
    /\ tool_pc[p] = "done"
    /\ tool_pc' = [tool_pc EXCEPT ![p] = "idle"]
    /\ tool_data_in' = [tool_data_in EXCEPT ![p] = <<>>]
    /\ tool_data' = [tool_data EXCEPT ![p] = <<>>]
    /\ tool_emitter' = [tool_emitter EXCEPT ![p] = 0]
    /\ tool_image' = [tool_image EXCEPT ![p] = "-"]
    /\ tool_fail' = [tool_fail EXCEPT ![p] = <<>>]
    /\ tool_events' =
           [e \in ToolInvocations |->
               SelectSeq(tool_events[e], LAMBDA ev : ev.by # p)]
    /\ tool_result' = [tool_result EXCEPT ![p] = NoReturn]
    /\ UNCHANGED << self_emitter, outside_tool >>

\* =====================================================================
\* rag: strings, as the pipelines split and join them
\* =====================================================================
\* A string is the sequence of its tokens; ";", ":", "," and " " are tokens
\* of their own.  NoneStr stands for None where a valve is Optional[str].
NoneStr == <<"None">>

\* bool(s) of an Optional[str]
StrTruthy(s) == s # NoneStr /\ s # <<>>

\* s.split(sep): "" gives [""], a trailing separator a trailing ""
RECURSIVE split(_, _)
split(s, sep) ==
    IF \E i \in 1 .. Len(s) : s[i] = sep
    THEN LET i == CHOOSE k \in 1 .. Len(s) :
                      s[k] = sep /\ \A j \in 1 .. k - 1 : s[j] # sep
         IN  <<SubSeq(s, 1, i - 1)>> \o split(SubSeq(s, i + 1, Len(s)), sep)
    ELSE <<s>>

\* s.strip()
RECURSIVE strip(_)
strip(s) ==
    IF Len(s) >= 1 /\ s[1] = " " THEN strip(Tail(s))
    ELSE IF Len(s) >= 1 /\ s[Len(s)] = " " THEN strip(SubSeq(s, 1, Len(s) - 1))
    ELSE s

\* [x.strip() for x in s.split(sep)]
split_strip(s, sep) == [i \in 1 .. Len(split(s, sep)) |-> strip(split(s, sep)[i])]

\* sep.join(items): how a configuration string is written
RECURSIVE join(_, _)
join(items, sep) ==
    IF Len(items) = 0 THEN <<>>
    ELSE IF Len(items) = 1 THEN items[1]
    ELSE items[1] \o <<sep>> \o join(Tail(items), sep)

\* the per-repository outcomes of reading and vectorizing
RepoOutcomes ==
    {"models_raise", "load_raises", "no_documents", "vectorize_raises", "indexed"}

\* a call of the host: the method ("valves" when it assigns the valves), its
\* model_id (<<>> when it takes none),
\* how it ended ("returned", "raised", or what pipe returned) and whether the
\* valves were the default ones
RagResult(op, arg, outcome, defaults) ==
    [op |-> op, arg |-> arg, outcome |-> outcome, defaults |-> defaults]

\* the answers of a query engine
QueryOutcomes == {"response", "raises"}

\* =====================================================================
\* rag/llamaindex_ollama_github_pipeline.py
\* =====================================================================
MaxRepos == 2

GhName == <<"GitHubRAG">>

\* Valves, lines 79-91: the file extensions excluded by default
GhDefaultExcludes ==
    join(<< <<".png">>, <<".jpg">>, <<".jpeg">>, <<".gif">>, <<".svg">>, <<".ico">>,
            <<".json">>, <<".ipynb">> >>, ";")

\* Valves()
GhDefaultValves ==
    [ENABLED |-> FALSE,
     GITHUB_TOKEN |-> <<>>,
     GITHUB_OWNERS |-> <<>>,
     GITHUB_REPOS |-> <<>>,
     GITHUB_BRANCHES |-> <<"main">>,
     INCLUDE_FILE_EXTENSIONS |-> NoneStr,
     EXCLUDE_FILE_EXTENSIONS |-> GhDefaultExcludes,
     INCLUDE_DIRECTORIES |-> NoneStr,
     EXCLUDE_DIRECTORIES |-> NoneStr]

\* [x.strip() for x in valve.split(';')] if valve else []
filter_list(valve) == IF StrTruthy(valve) THEN split_strip(valve, ";") ELSE <<>>

\* get_repos, lines 118-124: the seven lists
gh_lists(v) ==
    [owners |-> split_strip(v.GITHUB_OWNERS, ";"),
     repos |-> split_strip(v.GITHUB_REPOS, ";"),
     branches |-> split_strip(v.GITHUB_BRANCHES, ";"),
     ext_excludes |-> filter_list(v.EXCLUDE_FILE_EXTENSIONS),
     ext_includes |-> filter_list(v.INCLUDE_FILE_EXTENSIONS),
     dir_excludes |-> filter_list(v.EXCLUDE_DIRECTORIES),
     dir_includes |-> filter_list(v.INCLUDE_DIRECTORIES)]

\* the first check without the branches
gh_lists_accepted_ignores_branches(L) ==
    /\ Len(L.owners) = Len(L.repos)
    /\ ~ \E lst \in {L.ext_excludes, L.ext_includes, L.dir_excludes, L.dir_includes} :
            lst # <<>> /\ Len(lst) # Len(L.owners)

\* get_repos, lines 126 and 133: the two checks that end it with []
gh_lists_accepted(L) ==
    /\ Len(L.owners) = Len(L.repos) /\ Len(L.repos) = Len(L.branches)
    /\ ~ \E lst \in {L.ext_excludes, L.ext_includes, L.dir_excludes, L.dir_includes} :
            lst # <<>> /\ Len(lst) # Len(L.owners)

\* f"{owner}:{repo}:{branch}"
gh_repo_id(owner, repo, branch) == owner \o <<":">> \o repo \o <<":">> \o branch

gh_ids(L) ==
    [i \in 1 .. Len(L.owners) |-> gh_repo_id(L.owners[i], L.repos[i], L.branches[i])]

\* get_repos: the list it returns
gh_get_repos(v) ==
    LET L == gh_lists(v)
    IN  IF gh_lists_accepted(L)
        THEN [i \in 1 .. Len(L.owners) |->
                 [id |-> gh_ids(L)[i], name |-> GhName \o <<":">> \o gh_ids(L)[i]]]
        ELSE <<>>

\* get_repos, lines 141-144: one of the four dicts after the loop has
\* written the entries of positions i .. Len(ids), in that order
RECURSIVE gh_filters_recorded(_, _, _, _)
gh_filters_recorded(d, ids, lst, i) ==
    IF i > Len(ids) THEN d
    ELSE gh_filters_recorded(Put(d, ids[i], IF lst # <<>> THEN lst[i] ELSE NoneStr),
                             ids, lst, i + 1)

\* get_repos: a dict as the call leaves it
gh_filters_after(d, v, lst) ==
    IF gh_lists_accepted(gh_lists(v))
    THEN gh_filters_recorded(d, gh_ids(gh_lists(v)), lst, 1)
    ELSE d

NoFilters == [x \in {} |-> NoneStr]

NoIndexes == [none |-> TRUE, dict |-> [x \in {} |-> "index"]]

\* __init__, line 114: what pipes() returns and get_repos records under the
\* default valves
GhFirstPipelines == gh_get_repos(GhDefaultValves)

GhFirstFilters ==
    [ext_excludes |-> gh_filters_after(NoFilters, GhDefaultValves,
                                       gh_lists(GhDefaultValves).ext_excludes),
     ext_includes |-> gh_filters_after(NoFilters, GhDefaultValves,
                                       gh_lists(GhDefaultValves).ext_includes),
     dir_excludes |-> gh_filters_after(NoFilters, GhDefaultValves,
                                       gh_lists(GhDefaultValves).dir_excludes),
     dir_includes |-> gh_filters_after(NoFilters, GhDefaultValves,
                                       gh_lists(GhDefaultValves).dir_includes)]

\* __init__: the state of a new Pipeline object
GhConstructed ==
    /\ gh_valves = GhDefaultValves
    /\ gh_indexes = NoIndexes
    /\ gh_ext_excludes = GhFirstFilters.ext_excludes
    /\ gh_ext_includes = GhFirstFilters.ext_includes
    /\ gh_dir_excludes = GhFirstFilters.dir_excludes
    /\ gh_dir_includes = GhFirstFilters.dir_includes
    /\ gh_pipelines = GhFirstPipelines
    /\ gh_pc = "idle"
    /\ gh_todo = <<>>
    /\ gh_read = {}
    /\ gh_repos_current = TRUE
    /\ gh_enabled_set = FALSE
    /\ gh_result = RagResult("__init__", <<>>, "returned", TRUE)

GhInit == GhConstructed

\* the configurations the host's administrator writes
OwnerA == <<"a">>

OwnerB == <<"b">>

\* k items, x and y in turn
Alternating(k, x, y) == [i \in 1 .. k |-> IF i % 2 = 1 THEN x ELSE y]

\* one to MaxRepos repositories of different owners, no filter, and the
\* default configuration, which has no token
GhRepositories ==
    { [owners |-> join(Alternating(k, OwnerA, OwnerB), ";"),
       repos |-> join(Alternating(k, <<"r">>, <<"r">>), ";"),
       branches |-> join(Alternating(k, <<"m">>, <<"m">>), ";"),
       ext_excludes |-> NoneStr,
       token |-> <<"tok">>] : k \in 1 .. MaxRepos }
    \cup { [owners |-> GhDefaultValves.GITHUB_OWNERS,
             repos |-> GhDefaultValves.GITHUB_REPOS,
             branches |-> GhDefaultValves.GITHUB_BRANCHES,
             ext_excludes |-> GhDefaultValves.EXCLUDE_FILE_EXTENSIONS,
             token |-> GhDefaultValves.GITHUB_TOKEN] }

GhLifecycleValves ==
    { [GhDefaultValves EXCEPT !.ENABLED = e, !.GITHUB_TOKEN = c.token,
                              !.GITHUB_OWNERS = c.owners, !.GITHUB_REPOS = c.repos,
                              !.GITHUB_BRANCHES = c.branches,
                              !.EXCLUDE_FILE_EXTENSIONS = c.ext_excludes] :
        e \in BOOLEAN, c \in GhRepositories }

\* the lists an administrator may write: one to MaxRepos owners (different
\* ones, the same one, one with blanks around it), repos and branches, and
\* filters that are unset, empty, the default, or lists of several lengths
GhOwnerLists ==
    { join(Alternating(k, OwnerA, OwnerB), ";") : k \in 1 .. MaxRepos }
    \cup { join(Alternating(k, OwnerA, OwnerA), ";") : k \in 1 .. MaxRepos }
    \cup { <<" ">> \o OwnerA \o <<" ">>, GhDefaultValves.GITHUB_OWNERS }

GhRepoLists ==
    { join(Alternating(k, <<"r">>, <<"r">>), ";") : k \in 1 .. MaxRepos }
    \cup { GhDefaultValves.GITHUB_REPOS }

GhBranchLists ==
    { join(Alternating(k, <<"m">>, <<"m">>), ";") : k \in 1 .. MaxRepos }
    \cup { GhDefaultValves.GITHUB_BRANCHES }

GhExcludeLists ==
    { join(Alternating(k, <<".x">>, <<".y">>), ";") : k \in 1 .. MaxRepos }
    \cup { NoneStr, <<>>, GhDefaultValves.EXCLUDE_FILE_EXTENSIONS }

GhIncludeLists ==
    { join(Alternating(k, <<".i">>, <<".j">>), ";") : k \in 1 .. MaxRepos }
    \cup { NoneStr }

GhRepoValves ==
    { [GhDefaultValves EXCEPT !.GITHUB_OWNERS = o, !.GITHUB_REPOS = r,
                              !.GITHUB_BRANCHES = b,
                              !.EXCLUDE_FILE_EXTENSIONS = ee,
                              !.INCLUDE_FILE_EXTENSIONS = ei,
                              !.EXCLUDE_DIRECTORIES = de,
                              !.INCLUDE_DIRECTORIES = di] :
        o \in GhOwnerLists, r \in GhRepoLists, b \in GhBranchLists,
        ee \in GhExcludeLists, ei \in GhIncludeLists,
        de \in { NoneStr, join(<< <<"e">>, <<"f">> >>, ";") },
        di \in { NoneStr, <<"d">> } }

\* the model ids the host passes to pipe
GhModelIds ==
    { gh_repo_id(OwnerA, <<"r">>, <<"m">>), gh_repo_id(OwnerB, <<"r">>, <<"m">>) }

\* get_repos: what a call writes to the object
gh_get_repos_called(v) ==
    /\ gh_ext_excludes' = gh_filters_after(gh_ext_excludes, v, gh_lists(v).ext_excludes)
    /\ gh_ext_includes' = gh_filters_after(gh_ext_includes, v, gh_lists(v).ext_includes)
    /\ gh_dir_excludes' = gh_filters_after(gh_dir_excludes, v, gh_lists(v).dir_excludes)
    /\ gh_dir_includes' = gh_filters_after(gh_dir_includes, v, gh_lists(v).dir_includes)
    /\ gh_repos_current' = TRUE

\* Pipeline(): a new object
gh_construct ==
    /\ gh_pc = "idle"
    /\ ~GhConstructed
    /\ gh_valves' = GhDefaultValves
    /\ gh_indexes' = NoIndexes
    /\ gh_ext_excludes' = GhFirstFilters.ext_excludes
    /\ gh_ext_includes' = GhFirstFilters.ext_includes
    /\ gh_dir_excludes' = GhFirstFilters.dir_excludes
    /\ gh_dir_includes' = GhFirstFilters.dir_includes
    /\ gh_repos_current' = TRUE
    /\ gh_pipelines' = GhFirstPipelines
    /\ gh_todo' = <<>>
    /\ gh_read' = {}
    /\ gh_enabled_set' = FALSE
    /\ gh_result' = RagResult("__init__", <<>>, "returned", TRUE)
    /\ UNCHANGED << gh_pc, outside_gh >>

\* the host assigns the valves
gh_set_valves(V) ==
    /\ gh_pc = "idle"
    /\ \E v \in V :
        /\ gh_valves' = v
        /\ gh_enabled_set' = v.ENABLED
        /\ gh_repos_current' = (gh_repos_current /\ gh_lists(v) = gh_lists(gh_valves))
        /\ gh_result' = RagResult("valves", <<>>, "returned", v = GhDefaultValves)
    /\ UNCHANGED << gh_indexes, gh_ext_excludes, gh_ext_includes, gh_dir_excludes,
                    gh_dir_includes, gh_pipelines, gh_pc, gh_todo, gh_read,
                    outside_gh >>

\* on_startup without its line 329
gh_on_startup_keeps_enabled ==
    /\ gh_pc = "idle"
    /\ gh_get_repos_called(gh_valves)
    /\ gh_pipelines' = gh_get_repos(gh_valves)
    /\ gh_valves' = gh_valves
    /\ gh_enabled_set' = FALSE
    /\ gh_result' = RagResult("on_startup", <<>>, "returned", gh_valves = GhDefaultValves)
    /\ UNCHANGED << gh_indexes, gh_pc, gh_todo, gh_read, outside_gh >>

\* on_startup, lines 326-330
gh_on_startup ==
    /\ gh_pc = "idle"
    /\ gh_get_repos_called(gh_valves)
    /\ gh_pipelines' = gh_get_repos(gh_valves)
    /\ gh_valves' = [gh_valves EXCEPT !.ENABLED = FALSE]
    /\ gh_enabled_set' = FALSE
    /\ gh_result' = RagResult("on_startup", <<>>, "returned", gh_valves = GhDefaultValves)
    /\ UNCHANGED << gh_indexes, gh_pc, gh_todo, gh_read, outside_gh >>

\* on_valves_updated, lines 321-324, with _init_embeddings up to its loop
gh_on_valves_updated ==
    /\ gh_pc = "idle"
    /\ gh_get_repos_called(gh_valves)
    /\ gh_pipelines' = gh_get_repos(gh_valves)
    /\ gh_read' = {}
    /\ \E github_client \in {"client", "raises"} :
        IF ~gh_valves.ENABLED \/ ~StrTruthy(gh_valves.GITHUB_TOKEN)
        THEN /\ github_client = "client"
             /\ gh_result' = RagResult("on_valves_updated", <<>>, "returned",
                                       gh_valves = GhDefaultValves)
             /\ UNCHANGED << gh_indexes, gh_pc, gh_todo >>
        ELSE IF github_client = "raises"
        THEN \* the handler's log line reads valves.GITHUB_URL, which Valves
             \* does not have
             /\ gh_result' = RagResult("on_valves_updated", <<>>, "raised",
                                       gh_valves = GhDefaultValves)
             /\ UNCHANGED << gh_indexes, gh_pc, gh_todo >>
        ELSE /\ gh_indexes' = [none |-> FALSE, dict |-> [x \in {} |-> "index"]]
             /\ gh_todo' = gh_get_repos(gh_valves)
             /\ IF gh_get_repos(gh_valves) = <<>>
                THEN /\ gh_result' = RagResult("on_valves_updated", <<>>, "returned",
                                               gh_valves = GhDefaultValves)
                     /\ UNCHANGED gh_pc
                ELSE /\ gh_pc' = "indexing"
                     /\ UNCHANGED gh_result
    /\ UNCHANGED << gh_valves, gh_enabled_set, outside_gh >>

\* _init_embeddings, lines 236-319: one turn of the loop
gh_index_repo ==
    /\ gh_pc = "indexing"
    /\ \E outcome \in RepoOutcomes :
        LET repo_id == Head(gh_todo).id
            unpacked == Len(split(repo_id, ":")) = 3
            assigned == IF outcome = "indexed"
                        THEN Put(gh_indexes.dict, repo_id, "index")
                        ELSE gh_indexes.dict
            reading == unpacked /\ outcome # "models_raise"
            \* line 315 reads self.indexes[repo_id]
            raises == \/ ~unpacked
                      \/ outcome = "models_raise"
                      \/ outcome \in {"load_raises", "vectorize_raises"}
                            /\ repo_id \notin DOMAIN assigned
        IN  /\ gh_read' = IF reading THEN gh_read \cup {repo_id} ELSE gh_read
            /\ gh_indexes' = [gh_indexes EXCEPT !.dict = IF unpacked THEN assigned ELSE @]
            /\ IF raises
               THEN /\ gh_todo' = <<>>
                    /\ gh_pc' = "idle"
                    /\ gh_result' = RagResult("on_valves_updated", <<>>, "raised",
                                              gh_valves = GhDefaultValves)
               ELSE /\ gh_todo' = Tail(gh_todo)
                    /\ IF Tail(gh_todo) = <<>>
                       THEN /\ gh_pc' = "idle"
                            /\ gh_result' = RagResult("on_valves_updated", <<>>, "returned",
                                                      gh_valves = GhDefaultValves)
                       ELSE UNCHANGED << gh_pc, gh_result >>
    /\ UNCHANGED << gh_valves, gh_ext_excludes, gh_ext_includes, gh_dir_excludes,
                    gh_dir_includes, gh_pipelines, gh_repos_current, gh_enabled_set,
                    outside_gh >>

\* pipe, lines 337-365
gh_pipe ==
    /\ \E model_id \in GhModelIds, query \in QueryOutcomes :
        IF gh_indexes.none
        THEN \* None has no get
             /\ query = "response"
             /\ gh_result' = RagResult("pipe", model_id, "raised",
                                       gh_valves = GhDefaultValves)
        ELSE IF model_id \notin DOMAIN gh_indexes.dict
        THEN /\ query = "response"
             /\ gh_result' = RagResult("pipe", model_id, "None",
                                       gh_valves = GhDefaultValves)
        ELSE IF query = "raises"
        THEN gh_result' = RagResult("pipe", model_id, "raised",
                                    gh_valves = GhDefaultValves)
        ELSE gh_result' = RagResult("pipe", model_id, "response",
                                    gh_valves = GhDefaultValves)
    /\ UNCHANGED << gh_valves, gh_indexes, gh_ext_excludes, gh_ext_includes,
                    gh_dir_excludes, gh_dir_includes, gh_pipelines, gh_pc, gh_todo,
                    gh_read, gh_repos_current, gh_enabled_set, outside_gh >>

\* =====================================================================
\* rag/llamaindex_ollama_gitlab_pipeline.py
\* =====================================================================
GlName == <<"GitlabRAG">>

\* s.replace(old, new), old and new sequences of tokens
RECURSIVE replace(_, _, _)
replace(s, old, new) ==
    IF Len(s) < Len(old) THEN s
    ELSE IF SubSeq(s, 1, Len(old)) = old
    THEN new \o replace(SubSeq(s, Len(old) + 1, Len(s)), old, new)
    ELSE <<Head(s)>> \o replace(Tail(s), old, new)

\* Valves(); the four filter valves are read nowhere
GlDefaultValves ==
    [ENABLED |-> FALSE,
     GITLAB_TOKEN |-> <<>>,
     GITLAB_PROJECT_PATHS |-> <<>>,
     GITLAB_PATHS |-> <<>>,
     GITLAB_REFS |-> <<"HEAD">>,
     GITLAB_CODE |-> TRUE,
     GITLAB_ISSUES |-> TRUE]

\* {"id": "GitlabRAG:NULL", "name": "GitlabRAG:NULL"}
GlPlaceholder ==
    [id |-> GlName \o <<":", "NULL">>, name |-> GlName \o <<":", "NULL">>]

\* get_repos, line 148: None has no split
gl_get_repos_raises(v) == v.GITLAB_PATHS = NoneStr

\* get_repos, lines 147-151: the three lists
gl_lists(v) ==
    LET projects == split_strip(v.GITLAB_PROJECT_PATHS, ";")
        paths == split_strip(v.GITLAB_PATHS, ";")
    IN  [projects |-> [i \in 1 .. Len(projects) |-> replace(projects[i], <<"/">>, <<"_", "_">>)],
         paths |-> [i \in 1 .. Len(paths) |-> replace(paths[i], <<"/">>, <<"_", "_">>)],
         refs |-> split_strip(v.GITLAB_REFS, ";")]

gl_lists_accepted(L) ==
    Len(L.projects) = Len(L.paths) /\ Len(L.paths) = Len(L.refs)

\* f"{project}:{path}:{ref}"
gl_repo_id(project, path, ref) == project \o <<":">> \o path \o <<":">> \o ref

\* get_repos: the list it returns when it does not raise
gl_get_repos(v) ==
    LET L == gl_lists(v)
    IN  IF gl_lists_accepted(L)
        THEN [i \in 1 .. Len(L.projects) |->
                 [id |-> gl_repo_id(L.projects[i], L.paths[i], L.refs[i]),
                  name |-> GlName \o <<":">>
                           \o gl_repo_id(L.projects[i], L.paths[i], L.refs[i])]]
        ELSE <<GlPlaceholder>>

\* _init_embeddings, lines 257-259: the project, path and ref read from an id
\* of three parts
gl_decode(repo_id) ==
    LET parts == split(repo_id, ":")
    IN  [project |-> replace(parts[1], <<"_", "_">>, <<"/">>),
         path |-> replace(parts[2], <<"_", "_">>, <<"/">>),
         ref |-> parts[3]]

\* what connecting to GitLab can come to: gitlab.Gitlab(...) raises, or
\* auth() raises after the client was stored, or both succeed
GitlabOutcomes == {"Gitlab_raises", "auth_raises", "client"}

\* get_repos, line 159, and _init_gitlab: self.gitlab_client after the call
gl_init_gitlab(v, gitlab_client, connecting) ==
    IF ~gl_lists_accepted(gl_lists(v)) THEN gitlab_client
    ELSE IF ~StrTruthy(v.GITLAB_TOKEN) THEN gitlab_client
    ELSE IF gitlab_client # "None" THEN gitlab_client
    ELSE IF connecting = "Gitlab_raises" THEN "None"
    ELSE "client"

\* get_repos connects: there is a connection outcome to choose
gl_connects(v, gitlab_client) ==
    /\ ~gl_get_repos_raises(v)
    /\ gl_lists_accepted(gl_lists(v))
    /\ StrTruthy(v.GITLAB_TOKEN)
    /\ gitlab_client = "None"

\* __init__, line 117: what pipes() returns under the default valves
GlFirstPipelines == gl_get_repos(GlDefaultValves)

\* __init__: the state of a new Pipeline object
GlConstructed ==
    /\ gl_valves = GlDefaultValves
    /\ gl_indexes = NoIndexes
    /\ gl_gitlab_client = "None"
    /\ gl_pipelines = GlFirstPipelines
    /\ gl_pc = "idle"
    /\ gl_todo = <<>>
    /\ gl_read = {}
    /\ gl_loaded = <<>>
    /\ gl_enabled_set = FALSE
    /\ gl_result = RagResult("__init__", <<>>, "returned", TRUE)

GlInit == GlConstructed

ProjectP == <<"g", "/", "p">>

ProjectQ == <<"g", "/", "q">>

\* one to MaxRepos projects, the default configuration (which has no
\* token), more projects than refs, and no folder list at all
GlRepositories ==
    { [projects |-> join(Alternating(k, ProjectP, ProjectQ), ";"),
       paths |-> join(Alternating(k, <<>>, <<>>), ";"),
       refs |-> join(Alternating(k, <<"HEAD">>, <<"HEAD">>), ";"),
       token |-> <<"tok">>] : k \in 1 .. MaxRepos }
    \cup { [projects |-> GlDefaultValves.GITLAB_PROJECT_PATHS,
             paths |-> GlDefaultValves.GITLAB_PATHS,
             refs |-> GlDefaultValves.GITLAB_REFS,
             token |-> GlDefaultValves.GITLAB_TOKEN],
           [projects |-> join(<<ProjectP, ProjectQ>>, ";"),
             paths |-> join(<< <<>>, <<>> >>, ";"),
             refs |-> GlDefaultValves.GITLAB_REFS,
             token |-> <<"tok">>],
           [projects |-> ProjectP,
             paths |-> NoneStr,
             refs |-> GlDefaultValves.GITLAB_REFS,
             token |-> <<"tok">>] }

GlLifecycleValves ==
    { [GlDefaultValves EXCEPT !.ENABLED = e, !.GITLAB_TOKEN = c.token,
                              !.GITLAB_PROJECT_PATHS = c.projects,
                              !.GITLAB_PATHS = c.paths,
                              !.GITLAB_REFS = c.refs] :
        e \in BOOLEAN, c \in GlRepositories }

\* folders an administrator may name: the root, a folder, and a folder whose
\* name has two underscores in a row
FolderSrc == <<"src">>

FolderTests == <<"src", "/", "_", "_", "t">>

\* one to MaxRepos projects, folders and refs (a ref may hold a '/'), with
\* ENABLED true and a token
GlRepoValves ==
    { [GlDefaultValves EXCEPT !.ENABLED = TRUE, !.GITLAB_TOKEN = <<"tok">>,
                              !.GITLAB_PROJECT_PATHS = join(Alternating(k, ProjectP, ProjectQ), ";"),
                              !.GITLAB_PATHS = join(Alternating(m, f[1], f[2]), ";"),
                              !.GITLAB_REFS = join(Alternating(n, <<"HEAD">>, <<"f", "/", "x">>), ";")] :
        k \in 1 .. MaxRepos, m \in 1 .. MaxRepos, n \in 1 .. MaxRepos,
        f \in { << <<>>, <<>> >>, <<FolderSrc, FolderTests>>, <<FolderTests, FolderSrc>> } }

\* the model ids the host passes to pipe
GlModelIds ==
    { gl_repo_id(<<"g", "_", "_", "p">>, <<>>, <<"HEAD">>), GlPlaceholder.id }

\* Pipeline(): a new object
gl_construct ==
    /\ gl_pc = "idle"
    /\ ~GlConstructed
    /\ gl_valves' = GlDefaultValves
    /\ gl_indexes' = NoIndexes
    /\ gl_gitlab_client' = "None"
    /\ gl_pipelines' = GlFirstPipelines
    /\ gl_todo' = <<>>
    /\ gl_read' = {}
    /\ gl_loaded' = <<>>
    /\ gl_enabled_set' = FALSE
    /\ gl_result' = RagResult("__init__", <<>>, "returned", TRUE)
    /\ UNCHANGED << gl_pc, outside_gl >>

\* the host assigns the valves
gl_set_valves(V) ==
    /\ gl_pc = "idle"
    /\ \E v \in V :
        /\ gl_valves' = v
        /\ gl_enabled_set' = v.ENABLED
        /\ gl_result' = RagResult("valves", <<>>, "returned", v = GlDefaultValves)
    /\ UNCHANGED << gl_indexes, gl_gitlab_client, gl_pipelines, gl_pc, gl_todo,
                    gl_read, gl_loaded, outside_gl >>

\* on_startup, lines 304-308
gl_on_startup ==
    /\ gl_pc = "idle"
    /\ gl_enabled_set' = FALSE
    /\ \E connecting \in GitlabOutcomes :
        IF gl_get_repos_raises(gl_valves)
        THEN /\ connecting = "client"
             /\ gl_result' = RagResult("on_startup", <<>>, "raised",
                                       gl_valves = GlDefaultValves)
             /\ UNCHANGED << gl_valves, gl_gitlab_client, gl_pipelines >>
        ELSE /\ gl_connects(gl_valves, gl_gitlab_client) \/ connecting = "client"
             /\ gl_pipelines' = gl_get_repos(gl_valves)
             /\ gl_gitlab_client' = gl_init_gitlab(gl_valves, gl_gitlab_client, connecting)
             /\ gl_valves' = [gl_valves EXCEPT !.ENABLED = FALSE]
             /\ gl_result' = RagResult("on_startup", <<>>, "returned",
                                       gl_valves = GlDefaultValves)
    /\ UNCHANGED << gl_indexes, gl_pc, gl_todo, gl_read, gl_loaded, outside_gl >>

\* on_valves_updated, lines 298-302, with _init_embeddings up to its loop
gl_on_valves_updated ==
    /\ gl_pc = "idle"
    /\ gl_read' = {}
    /\ gl_loaded' = <<>>
    /\ \E connecting \in GitlabOutcomes, again \in GitlabOutcomes :
        LET connected == gl_init_gitlab(gl_valves, gl_gitlab_client, connecting)
        IN  IF gl_get_repos_raises(gl_valves)
            THEN /\ connecting = "client" /\ again = "client"
                 /\ gl_result' = RagResult("on_valves_updated", <<>>, "raised",
                                           gl_valves = GlDefaultValves)
                 /\ UNCHANGED << gl_gitlab_client, gl_pipelines, gl_indexes, gl_pc,
                                 gl_todo >>
            ELSE /\ gl_connects(gl_valves, gl_gitlab_client) \/ connecting = "client"
                 /\ gl_pipelines' = gl_get_repos(gl_valves)
                 /\ IF ~gl_valves.ENABLED
                    THEN /\ again = "client"
                         /\ gl_gitlab_client' = connected
                         /\ gl_result' = RagResult("on_valves_updated", <<>>, "returned",
                                                   gl_valves = GlDefaultValves)
                         /\ UNCHANGED << gl_indexes, gl_pc, gl_todo >>
                    ELSE /\ gl_connects(gl_valves, connected) \/ again = "client"
                         /\ gl_gitlab_client' = gl_init_gitlab(gl_valves, connected, again)
                         /\ gl_indexes' = [none |-> FALSE, dict |-> [x \in {} |-> "index"]]
                         /\ gl_todo' = gl_get_repos(gl_valves)
                         /\ gl_pc' = "indexing"
                         /\ UNCHANGED gl_result
    /\ UNCHANGED << gl_valves, gl_enabled_set, outside_gl >>

\* _init_embeddings, lines 253-296: one turn of the loop
gl_index_repo ==
    /\ gl_pc = "indexing"
    /\ \E outcome \in RepoOutcomes :
        LET repo_id == Head(gl_todo).id
            unpacked == Len(split(repo_id, ":")) = 3
            loading == gl_valves.GITLAB_CODE \/ gl_valves.GITLAB_ISSUES
            assigned ==
                IF outcome = "indexed"
                THEN Put(gl_indexes.dict, repo_id, "index")
                ELSE IF outcome \in {"no_documents", "vectorize_raises"}
                THEN Put(gl_indexes.dict, repo_id, "None")
                ELSE gl_indexes.dict
            reading == unpacked /\ outcome # "models_raise" /\ loading
            \* line 292 reads self.indexes[repo_id]
            raises == \/ ~unpacked
                      \/ outcome = "models_raise"
                      \/ outcome = "load_raises" /\ repo_id \notin DOMAIN assigned
        IN  /\ loading \/ outcome \in {"models_raise", "no_documents"}
            /\ gl_read' = IF reading THEN gl_read \cup {repo_id} ELSE gl_read
            /\ gl_loaded' = IF reading THEN Append(gl_loaded, gl_decode(repo_id))
                                       ELSE gl_loaded
            /\ gl_indexes' = [gl_indexes EXCEPT !.dict = IF unpacked THEN assigned ELSE @]
            /\ IF raises
               THEN /\ gl_todo' = <<>>
                    /\ gl_pc' = "idle"
                    /\ gl_result' = RagResult("on_valves_updated", <<>>, "raised",
                                              gl_valves = GlDefaultValves)
               ELSE /\ gl_todo' = Tail(gl_todo)
                    /\ IF Tail(gl_todo) = <<>>
                       THEN /\ gl_pc' = "idle"
                            /\ gl_result' = RagResult("on_valves_updated", <<>>, "returned",
                                                      gl_valves = GlDefaultValves)
                       ELSE UNCHANGED << gl_pc, gl_result >>
    /\ UNCHANGED << gl_valves, gl_gitlab_client, gl_pipelines, gl_enabled_set,
                    outside_gl >>

\* pipe, lines 315-344
gl_pipe ==
    /\ \E model_id \in GlModelIds, query \in QueryOutcomes :
        IF gl_indexes.none
        THEN \* None has no get
             /\ query = "response"
             /\ gl_result' = RagResult("pipe", model_id, "raised",
                                       gl_valves = GlDefaultValves)
        ELSE IF Get(gl_indexes.dict, model_id, "None") = "None"
        THEN /\ query = "response"
             /\ gl_result' = RagResult("pipe", model_id, "None",
                                       gl_valves = GlDefaultValves)
        ELSE IF query = "raises"
        THEN gl_result' = RagResult("pipe", model_id, "raised",
                                    gl_valves = GlDefaultValves)
        ELSE gl_result' = RagResult("pipe", model_id, "response",
                                    gl_valves = GlDefaultValves)
    /\ UNCHANGED << gl_valves, gl_indexes, gl_gitlab_client, gl_pipelines, gl_pc,
                    gl_todo, gl_read, gl_loaded, gl_enabled_set, outside_gl >>

\* =====================================================================
\* tools/bbc-news.py: the BBC news tool
\* =====================================================================
\* largest number of invocations of the tool in progress together
MaxNews == 2

NewsInvocations == 1 .. MaxNews

\* ArticleType: some of its values, "" being top_stories
ArticleType == {"", "world", "world/africa"}

\* what the host passes as type: a value of ArticleType or another string
NewsTypes == ArticleType \cup {"sport"}

\* the URIs the host passes, in the parts URI_REGEX tells apart
Uris ==
    { <<>>,
      <<"https://", "bbc.com", "/news/", "articles", "/", "c1">>,
      <<"http://", "www.", "bbc.co.uk", "/news/", "videos", "/", "c1">>,
      <<"https://", "bbc.com", "/sport/", "articles", "/", "c1">>,
      <<"https://", "example.com", "/news/", "articles", "/", "c1">>,
      <<"https://", "bbc.com", "/news/", "articles", "/">> }

\* re.match(URI_REGEX, uri), line 71:
\* ^(https?:\/\/)(www\.)?bbc\.(com|co\.uk)\/news\/(articles|videos)\/\w+$
uri_matches(uri) ==
    LET rest == IF Len(uri) >= 2 /\ uri[2] = "www."
                THEN <<uri[1]>> \o SubSeq(uri, 3, Len(uri))
                ELSE uri
    IN  /\ Len(rest) = 6
        /\ rest[1] \in {"http://", "https://"}
        /\ rest[2] \in {"bbc.com", "bbc.co.uk"}
        /\ rest[3] = "/news/"
        /\ rest[4] \in {"articles", "videos"}
        /\ rest[5] = "/"
        /\ rest[6] \in {"c1"}

\* a status event: its description (without the values it quotes), and
\* its status and done fields
NewsEvent(description, status, done) ==
    [type |-> "status", description |-> description, status |-> status, done |-> done]

NewsNone == "none"

NewsRaised == "raised"

\* what requests.get and the reading of its response can come to in
\* get_bbc_news_feed: the request raises, the response is not ok, the feed
\* does not parse (or an item lacks a field), or the items are read
FeedOutcomes == {"raises", "not_ok", "unparsable", "items"}

\* the same in get_bbc_news_content: no <article> element, or the text
ContentOutcomes == {"raises", "not_ok", "no_article", "text"}

NewsInit ==
    /\ news_pc = [p \in NewsInvocations |-> "idle"]
    /\ news_call = [p \in NewsInvocations |-> [op |-> "-", arg |-> <<>>]]
    /\ news_events = [p \in NewsInvocations |-> <<>>]
    /\ news_result = [p \in NewsInvocations |-> NewsNone]

\* get_bbc_news_feed, lines 89-90: from its call to its first await
get_bbc_news_feed(p) ==
    /\ news_pc[p] = "idle"
    /\ \E type \in NewsTypes :
         /\ news_call' = [news_call EXCEPT ![p] = [op |-> "get_bbc_news_feed", arg |-> <<type>>]]
         /\ IF type \notin ArticleType
            THEN \* ArticleType(type) raises ValueError
                 /\ news_result' = [news_result EXCEPT ![p] = NewsRaised]
                 /\ news_pc' = [news_pc EXCEPT ![p] = "done"]
                 /\ UNCHANGED news_events
            ELSE /\ news_events' = [news_events EXCEPT ![p] =
                        <<NewsEvent("Starting BBC News Feed retrieval", "in_progress", "False")>>]
                 /\ news_pc' = [news_pc EXCEPT ![p] = "feed_started"]
                 /\ UNCHANGED news_result
    /\ UNCHANGED outside_news

\* get_bbc_news_feed, lines 91-105: the try block up to its await or return
get_bbc_news_feed_after_start(p) ==
    /\ news_pc[p] = "feed_started"
    /\ \E outcome \in FeedOutcomes :
         IF outcome = "not_ok"
         THEN \* line 94
              /\ news_result' = [news_result EXCEPT ![p] = "Error: not found"]
              /\ news_pc' = [news_pc EXCEPT ![p] = "done"]
              /\ UNCHANGED news_events
         ELSE /\ news_events' = [news_events EXCEPT ![p] =
                    Append(@, IF outcome = "items"
                              THEN NewsEvent("Retrieved news items", "complete", "True")
                              ELSE NewsEvent("Failed to retrieved any news items",
                                             "complete", "True"))]
              /\ news_pc' = [news_pc EXCEPT ![p] = "feed_final_sent"]
              /\ UNCHANGED news_result
    /\ UNCHANGED << news_call, outside_news >>

\* get_bbc_news_feed, lines 105 and 107: the return after the last event
get_bbc_news_feed_after_final(p) ==
    /\ news_pc[p] = "feed_final_sent"
    /\ news_result' = [news_result EXCEPT ![p] =
            IF news_events[p][Len(news_events[p])].description = "Retrieved news items"
            THEN "json" ELSE "Error: e"]
    /\ news_pc' = [news_pc EXCEPT ![p] = "done"]
    /\ UNCHANGED << news_call, news_events, outside_news >>

\* get_bbc_news_content, line 121: from its call to its first await
get_bbc_news_content(p) ==
    /\ news_pc[p] = "idle"
    /\ \E uri \in Uris :
         news_call' = [news_call EXCEPT ![p] = [op |-> "get_bbc_news_content", arg |-> uri]]
    /\ news_events' = [news_events EXCEPT ![p] =
            <<NewsEvent("Starting BBC News Article retrieval", "in_progress", "False")>>]
    /\ news_pc' = [news_pc EXCEPT ![p] = "content_started"]
    /\ UNCHANGED << news_result, outside_news >>

\* get_bbc_news_content, lines 123-145: up to its next await or return
get_bbc_news_content_after_start(p) ==
    /\ news_pc[p] = "content_started"
    /\ \E outcome \in ContentOutcomes :
         LET uri == news_call[p].arg
             sent(description) ==
                 /\ news_events' = [news_events EXCEPT ![p] =
                        Append(@, NewsEvent(description, "complete", "True"))]
                 /\ news_pc' = [news_pc EXCEPT ![p] = "content_final_sent"]
                 /\ UNCHANGED news_result
         IN  IF uri = <<>>
             THEN outcome = "text" /\ sent("Error: No URI provided.")
             ELSE IF ~uri_matches(uri)
             THEN outcome = "text" /\ sent("Error: URI must be a BBC News article.")
             ELSE IF outcome = "not_ok"
             THEN \* line 134
                  /\ news_result' = [news_result EXCEPT ![p] = "Error: not found"]
                  /\ news_pc' = [news_pc EXCEPT ![p] = "done"]
                  /\ UNCHANGED news_events
             ELSE IF outcome = "no_article"
             THEN sent("Failed to retrieve: Article content not found.")
             ELSE IF outcome = "text"
             THEN sent("Retrieved BBC News Article content")
             ELSE sent("Failed to retrieve: e")
    /\ UNCHANGED << news_call, outside_news >>

\* get_bbc_news_content: the return after the last event
get_bbc_news_content_after_final(p) ==
    /\ news_pc[p] = "content_final_sent"
    /\ LET last == news_events[p][Len(news_events[p])].description
       IN  news_result' = [news_result EXCEPT ![p] =
               IF last = "Error: No URI provided." THEN "Error: No URI provided"
               ELSE IF last = "Error: URI must be a BBC News article."
               THEN "Error: URI must be a BBC News article."
               ELSE IF last = "Failed to retrieve: Article content not found."
               THEN "Error: Article content not found."
               ELSE IF last = "Retrieved BBC News Article content" THEN "content"
               ELSE "Error: e"]
    /\ news_pc' = [news_pc EXCEPT ![p] = "done"]
    /\ UNCHANGED << news_call, news_events, outside_news >>

\* the host has the result, and the events of the invocation
news_return(p) ==
    /\ news_pc[p] = "done"
    /\ news_pc' = [news_pc EXCEPT ![p] = "idle"]
    /\ news_call' = [news_call EXCEPT ![p] = [op |-> "-", arg |-> <<>>]]
    /\ news_events' = [news_events EXCEPT ![p] = <<>>]
    /\ news_result' = [news_result EXCEPT ![p] = NewsNone]
    /\ UNCHANGED outside_news

\* =====================================================================
\* functions/visualize_data.py: the chart action
\* =====================================================================
\* largest number of messages of a body the host passes to action
MaxChartMessages == 2

\* a message's content, in the parts action appends to it
ChartMsg(role, content) == [role |-> role, content |-> content]

ChartBodies ==
    UNION { [1 .. n -> {ChartMsg("user", <<"data">>), ChartMsg("assistant", <<"table">>)}] :
                n \in 0 .. MaxChartMessages }

\* the events of action
ChartStatus(description, done) ==
    [type |-> "status", description |-> description, done |-> done]

ChartErrorMessage == [type |-> "message", description |-> "Error", done |-> "-"]

\* what the calls of the try block can come to: chat.completions.create
\* raises, the response has no choices[0].message.content, the file cannot
\* be created, or the html is stored
ChartOutcomes == {"create_raises", "malformed", "file_raises", "html"}

\* __init__
ChartInit ==
    /\ chart_show_status = TRUE
    /\ chart_pc = "idle"
    /\ chart_emitter = "None"
    /\ chart_user = "None"
    /\ chart_messages_in = <<>>
    /\ chart_messages = <<>>
    /\ chart_outcome = "-"
    /\ chart_events = <<>>
    /\ chart_result = "none"

\* the host sets the valves; no action is in progress
chart_set_valves ==
    /\ chart_pc = "idle"
    /\ \E st \in BOOLEAN : chart_show_status' = st
    /\ UNCHANGED << chart_pc, chart_emitter, chart_user, chart_messages_in,
                    chart_messages, chart_outcome, chart_events, chart_result,
                    outside_chart >>

\* lines 284-312: whether the try block raises before line 322
chart_try_raises(outcome, messages, user) ==
    \/ messages = <<>>              \* body["messages"][-1], line 284
    \/ outcome \in {"create_raises", "malformed", "file_raises"}
    \/ user = "None"                \* __user__["id"], line 311

\* line 322, line 341: text appended to the last message's content
append_to_last(messages, text) ==
    [messages EXCEPT ![Len(messages)] = ChartMsg(@.role, Append(@.content, text))]

\* lines 283-343: the try block and the except clause up to the first await
\* or to the end of action
chart_try(outcome, messages, user, emitter, events) ==
    /\ chart_outcome' = outcome
    /\ IF ~chart_try_raises(outcome, messages, user)
       THEN /\ chart_messages' = append_to_last(messages, "{{HTML_FILE_ID}}")
            /\ IF chart_show_status /\ emitter # "None"
               THEN /\ chart_events' = Append(events, ChartStatus("Visualise the chart", "True"))
                    /\ chart_pc' = "last_status_sent"
                    /\ UNCHANGED chart_result
               ELSE /\ chart_events' = events
                    /\ chart_pc' = "done"
                    /\ chart_result' = "body"
       ELSE IF messages = <<>>
       THEN \* line 341: body["messages"][-1] raises inside the handler
            /\ chart_messages' = messages
            /\ chart_events' = events
            /\ chart_pc' = "done"
            /\ chart_result' = "raised"
       ELSE /\ chart_messages' = append_to_last(messages, "Error")
            /\ IF emitter = "None"
               THEN \* line 343: None is not callable
                    /\ chart_events' = events
                    /\ chart_pc' = "done"
                    /\ chart_result' = "raised"
               ELSE /\ chart_events' = Append(events, ChartErrorMessage)
                    /\ chart_pc' = "error_message_sent"
                    /\ UNCHANGED chart_result

\* action, lines 267-281, and, without a status event to send, its try block
action ==
    /\ chart_pc = "idle"
    /\ \E messages \in ChartBodies, user \in {"None", "user"},
          emitter \in {"None", "emitter"}, outcome \in ChartOutcomes :
         /\ chart_messages_in' = messages
         /\ chart_user' = user
         /\ chart_emitter' = emitter
         /\ IF chart_show_status /\ emitter # "None"
            THEN /\ outcome = "html"
                 /\ chart_events' = <<ChartStatus("Analysing Data", "False")>>
                 /\ chart_pc' = "status_sent"
                 /\ chart_messages' = messages
                 /\ chart_outcome' = "-"
                 /\ chart_result' = "none"
            ELSE chart_try(outcome, messages, user, emitter, <<>>)
    /\ UNCHANGED << chart_show_status, outside_chart >>

\* action resumed after the first status event
action_after_status ==
    /\ chart_pc = "status_sent"
    /\ \E outcome \in ChartOutcomes :
         chart_try(outcome, chart_messages, chart_user, chart_emitter, chart_events)
    /\ UNCHANGED << chart_show_status, chart_emitter, chart_user, chart_messages_in,
                    outside_chart >>

\* lines 345-354: action resumed after the error message event
action_after_error_message ==
    /\ chart_pc = "error_message_sent"
    /\ IF chart_show_status /\ chart_emitter # "None"
       THEN /\ chart_events' = Append(chart_events,
                                      ChartStatus("Error Visualizing JSON", "True"))
            /\ chart_pc' = "last_status_sent"
            /\ UNCHANGED chart_result
       ELSE /\ chart_pc' = "done"
            /\ chart_result' = "body"
            /\ UNCHANGED chart_events
    /\ UNCHANGED << chart_show_status, chart_emitter, chart_user, chart_messages_in,
                    chart_messages, chart_outcome, outside_chart >>

\* lines 356-357: action resumed after its last status event
action_after_last_status ==
    /\ chart_pc = "last_status_sent"
    /\ chart_pc' = "done"
    /\ chart_result' = "body"
    /\ UNCHANGED << chart_show_status, chart_emitter, chart_user, chart_messages_in,
                    chart_messages, chart_outcome, chart_events, outside_chart >>

\* the host has the body back
action_return ==
    /\ chart_pc = "done"
    /\ chart_pc' = "idle"
    /\ chart_emitter' = "None"
    /\ chart_user' = "None"
    /\ chart_messages_in' = <<>>
    /\ chart_messages' = <<>>
    /\ chart_outcome' = "-"
    /\ chart_events' = <<>>
    /\ chart_result' = "none"
    /\ UNCHANGED << chart_show_status, outside_chart >>

\* =====================================================================
\* Specifications: one per module
\* =====================================================================
Init ==
    /\ SdkInit /\ InfInit /\ ManInit /\ GenInit /\ EnhInit /\ ToolInit /\ GhInit /\ GlInit
    /\ NewsInit /\ ChartInit

SdkNext ==
    \/ sdk_pipe
    \/ sdk_create
    \/ sdk_except
    \/ sdk_return
    \/ sdk_on_valves_updated
    \/ sdk_on_startup

InfNext ==
    \/ inf_pipe
    \/ inf_complete
    \/ inf_return

ManNext ==
    \/ man_pipe
    \/ man_post
    \/ man_return
    \/ man_on_valves_updated

SpecSdk == Init /\ [][SdkNext]_vars

SpecInference == Init /\ [][InfNext]_vars

SpecManifold == Init /\ [][ManNext]_vars

GenNext ==
    \/ gen_start
    \/ gen_chunk
    \/ gen_stop
    \/ gen_close

SpecStream == Init /\ [][GenNext]_vars

\* one inlet at a time, over every conversation
inlet_one == inlet(1, Conversations)

inlet_after_status_one == inlet_after_status(1)

inlet_completion_one == inlet_completion(1)

inlet_after_success_status_one == inlet_after_success_status(1)

inlet_after_last_emit_one == inlet_after_last_emit(1)

inlet_return_one == inlet_return(1)

EnhNext ==
    \/ enh_set_valves
    \/ inlet_one
    \/ inlet_after_status_one
    \/ inlet_completion_one
    \/ inlet_after_success_status_one
    \/ inlet_after_last_emit_one
    \/ inlet_return_one

SpecEnhancer == Init /\ [][EnhNext]_vars

\* several inlets in progress on the same Filter object, interleaved at
\* their awaits
inlet_any == \E p \in Invocations : inlet(p, OneQuestion)

inlet_after_status_any == \E p \in Invocations : inlet_after_status(p)

inlet_completion_any == \E p \in Invocations : inlet_completion(p)

inlet_after_success_status_any == \E p \in Invocations : inlet_after_success_status(p)

inlet_after_last_emit_any == \E p \in Invocations : inlet_after_last_emit(p)

inlet_return_any == \E p \in Invocations : inlet_return(p)

EnhConcurrentNext ==
    \/ enh_set_valves
    \/ inlet_any
    \/ inlet_after_status_any
    \/ inlet_completion_any
    \/ inlet_after_success_status_any
    \/ inlet_after_last_emit_any
    \/ inlet_return_any

SpecEnhancerConcurrent == Init /\ [][EnhConcurrentNext]_vars

\* generate_diagram invocations on the same Tools object, interleaved at
\* their awaits
generate_diagram_any == \E p \in ToolInvocations : generate_diagram(p)

generate_diagram_after_processing_any ==
    \E p \in ToolInvocations : generate_diagram_after_processing(p)

generate_diagram_after_message_any ==
    \E p \in ToolInvocations : generate_diagram_after_message(p)

generate_diagram_after_success_any ==
    \E p \in ToolInvocations : generate_diagram_after_success(p)

generate_diagram_return_any == \E p \in ToolInvocations : generate_diagram_return(p)

ToolNext ==
    \/ generate_diagram_any
    \/ generate_diagram_after_processing_any
    \/ generate_diagram_after_message_any
    \/ generate_diagram_after_success_any
    \/ generate_diagram_return_any

SpecTool == Init /\ [][ToolNext]_vars

\* the GitHub pipeline through its lifecycle, the host assigning valves at
\* any time
gh_set_valves_any == gh_set_valves(GhLifecycleValves)

gl_set_valves_any == gl_set_valves(GlLifecycleValves)

\* The two pipelines share no state: a behaviour follows one of them, the
\* other staying as constructed.
rag_gh_construct == GlConstructed /\ gh_construct

rag_gh_set_valves == GlConstructed /\ gh_set_valves_any

rag_gh_on_startup == GlConstructed /\ gh_on_startup

rag_gh_on_valves_updated == GlConstructed /\ gh_on_valves_updated

rag_gh_index_repo == GlConstructed /\ gh_index_repo

rag_gh_pipe == GlConstructed /\ gh_pipe

rag_gl_construct == GhConstructed /\ gl_construct

rag_gl_set_valves == GhConstructed /\ gl_set_valves_any

rag_gl_on_startup == GhConstructed /\ gl_on_startup

rag_gl_on_valves_updated == GhConstructed /\ gl_on_valves_updated

rag_gl_index_repo == GhConstructed /\ gl_index_repo

rag_gl_pipe == GhConstructed /\ gl_pipe

RagNext ==
    \/ rag_gh_construct
    \/ rag_gh_set_valves
    \/ rag_gh_on_startup
    \/ rag_gh_on_valves_updated
    \/ rag_gh_index_repo
    \/ rag_gh_pipe
    \/ rag_gl_construct
    \/ rag_gl_set_valves
    \/ rag_gl_on_startup
    \/ rag_gl_on_valves_updated
    \/ rag_gl_index_repo
    \/ rag_gl_pipe

SpecRag == Init /\ [][RagNext]_vars

\* the GitHub pipeline over the configurations of its repository lists:
\* each object is configured once, before its first lifecycle call
gh_configure == GhConstructed /\ gh_set_valves(GhRepoValves)

GhReposNext ==
    \/ gh_construct
    \/ gh_configure
    \/ gh_on_startup
    \/ gh_on_valves_updated

SpecGithubRepos == Init /\ [][GhReposNext]_vars

\* the GitLab pipeline over the configurations of its repository lists: each
\* object is configured once, before on_valves_updated
gl_configure == GlConstructed /\ gl_set_valves(GlRepoValves)

GlReposNext ==
    \/ gl_construct
    \/ gl_configure
    \/ gl_on_valves_updated
    \/ gl_index_repo

SpecGitlabRepos == Init /\ [][GlReposNext]_vars

\* the BBC news tool: invocations of its two functions, interleaved at
\* their awaits
get_bbc_news_feed_any == \E p \in NewsInvocations : get_bbc_news_feed(p)

get_bbc_news_feed_after_start_any ==
    \E p \in NewsInvocations : get_bbc_news_feed_after_start(p)

get_bbc_news_feed_after_final_any ==
    \E p \in NewsInvocations : get_bbc_news_feed_after_final(p)

get_bbc_news_content_any == \E p \in NewsInvocations : get_bbc_news_content(p)

get_bbc_news_content_after_start_any ==
    \E p \in NewsInvocations : get_bbc_news_content_after_start(p)

get_bbc_news_content_after_final_any ==
    \E p \in NewsInvocations : get_bbc_news_content_after_final(p)

news_return_any == \E p \in NewsInvocations : news_return(p)

NewsNext ==
    \/ get_bbc_news_feed_any
    \/ get_bbc_news_feed_after_start_any
    \/ get_bbc_news_feed_after_final_any
    \/ get_bbc_news_content_any
    \/ get_bbc_news_content_after_start_any
    \/ get_bbc_news_content_after_final_any
    \/ news_return_any

SpecNews == Init /\ [][NewsNext]_vars

\* the chart action: one invocation at a time
ChartNext ==
    \/ chart_set_valves
    \/ action
    \/ action_after_status
    \/ action_after_error_message
    \/ action_after_last_status
    \/ action_return

SpecChart == Init /\ [][ChartNext]_vars

\* ---------------------------------------------------------------------
\* Properties of the Azure OpenAI SDK pipeline
\* ---------------------------------------------------------------------

\* C1: one invocation of pipe calls client.chat.completions.create at most
\* OPENAI_RETRY_MAX times, whatever the provider does on each attempt.
C1_RetryCeiling == calls <= OPENAI_RETRY_MAX

\* an invocation has ended after an attempt that failed with a retryable error
C1_Witness ==
    /\ sdk_pc = "done"
    /\ calls >= 1
    /\ first_exc = "RateLimitError"
    /\ error.retry

\* C2: once a retryable failure below the ceiling has been handled, pipe has
\* slept for a defined delay before the retry, one sleep per failed attempt,
\* and each delay is double the previous one (so strictly larger).
C2_BackoffSleeps ==
    (error # NoError /\ error.retry /\ response = "None"
        /\ retry_count < OPENAI_RETRY_MAX)
    => /\ Len(slept) = retry_count
       /\ \A i \in 1 .. Len(slept) - 1 :
            slept[i + 1] = 2 * slept[i] /\ slept[i + 1] > slept[i]

\* C3: when the first failure is a connection error, an invalid-request error,
\* a server-unavailable error or an unknown exception, pipe ends after exactly
\* one call and returns the 'OpenAI API error: ...' string.
C3_FatalKindsReturnAtOnce ==
    (sdk_pc = "done"
        /\ first_exc \in {"APIConnectionError", "BadRequestError",
                          "InternalServerError", "ValueError"})
    => (calls = 1 /\ sdk_result.kind = "errmsg")

\* the label the seven kinds get, the most specific class deciding
C4_Label(e) ==
    IF IsInstance(e, "AuthenticationError") THEN "Authentication Error"
    ELSE IF IsInstance(e, "APIConnectionError") THEN "Connection Error"
    ELSE IF IsInstance(e, "BadRequestError") THEN "Invalid Request Error"
    ELSE IF IsInstance(e, "RateLimitError") THEN "Request Exceeded Rate Limit"
    ELSE IF IsInstance(e, "InternalServerError") THEN "Service Unavailable Error"
    ELSE IF IsInstance(e, "APIError") THEN "API Error"
    ELSE "Unknown Error"

\* C4: handle_openai_error labels the exception it is given by its kind:
\* each of the five specific SDK errors by its own label, any other APIError
\* 'API Error', anything else 'Unknown Error'.
C4_SevenKinds ==
    (error # NoError /\ sdk_exc # "none") => error.msg = C4_Label(sdk_exc)

\* C5: after a call failed with an authentication error and the error was
\* handled, self.client is a client other than the one the call was made on.
C5_ClientReacquired ==
    (error # NoError /\ sdk_exc = "AuthenticationError")
    => client # call_clients[Len(call_clients)]

\* C6: when the provider returns a malformed response (no choices, or a first
\* choice without a message), pipe of the SDK pipeline and pipe of the
\* Inference pipeline return a formatted error string.
C6_MalformedGivesErrorString ==
    /\ (sdk_pc = "done" /\ response \in {"empty_choices", "no_message"}
            /\ ~ Truthy(stream))
       => sdk_result.kind = "errmsg"
    /\ (inf_pc = "done" /\ inf_response \in {"empty_choices", "no_message"}
            /\ ~ Truthy(inf_stream))
       => inf_result.kind = "errmsg"

\* C7: when requests.post raises, or returns a response with an error status,
\* pipe returns a string beginning with 'Error: ', and with an error status
\* the string includes the response's text.
C7_HttpFailureGivesErrorString ==
    (man_pc = "done" /\ Len(man_posted) = 1 /\ man_r \in {"unbound", "error_status"})
    => /\ man_result.kind = "errmsg"
       /\ man_r = "error_status" => man_result.detail = "Error: e (text)"

\* what C8 says body['user'] becomes
C8_Remapped(u) ==
    IF u.kind = "dict" /\ u.id_kind # "absent"
    THEN PyVal(u.id_kind, "-", "-", u.id_txt)
    ELSE PyStr(u.repr)

\* body_in is a body C8 is about: its 'user' is present and not a string
C8_NonStringUser(body_in) ==
    "user" \in DOMAIN body_in /\ body_in["user"].kind # "str"

\* pipe, having passed its remapping, did not raise and left in body what C8 says
C8_Done(body_in, body, result) ==
    /\ result # [kind |-> "raised", detail |-> "TypeError"]
    /\ body["user"] = C8_Remapped(body_in["user"])

\* C8: in each of the three pipelines, for a body whose 'user' is present and
\* not a string, pipe replaces it by its 'id' entry when it has one and by its
\* string form otherwise, and does not raise.
C8_UserRemapped ==
    /\ (sdk_pc # "idle" /\ ~ DISABLED /\ C8_NonStringUser(sdk_body_in))
       => C8_Done(sdk_body_in, sdk_body, sdk_result)
    /\ (inf_pc # "idle" /\ C8_NonStringUser(inf_body_in))
       => C8_Done(inf_body_in, inf_body, inf_result)
    /\ (man_pc # "idle" /\ C8_NonStringUser(man_body_in)
            /\ man_result.detail # "ClientAuthenticationError")
       => C8_Done(man_body_in, man_body, man_result)

\* C10: for a model id starting with 'o', the parameters passed to
\* chat.completions.create hold none of the parameters reasoning models do
\* not support.
C10_NoUnsupportedParameters ==
    (calls >= 1 /\ StartsWithO(sdk_model_id))
    => (DOMAIN parameters) \cap {"stream", "temperature", "top_p", "presence_penalty",
                                 "frequency_penalty", "max_tokens"} = {}

\* C9: the JSON body posted holds only keys of allowed_params, and for a model
\* id starting with 'o' none of the keys of o_model_not_allowed_params.
C9_PostedBodyFiltered ==
    \A i \in 1 .. Len(man_posted) :
        /\ DOMAIN man_posted[i] \subseteq allowed_params
        /\ StartsWithO(man_model_id)
            => (DOMAIN man_posted[i]) \cap
                 {"stream", "temperature", "top_p", "presence_penalty",
                  "frequency_penalty", "logprobs", "top_logprobs", "logit_bias",
                  "max_tokens"} = {}

\* a body with temperature and a key outside allowed_params was posted for
\* an o-model without them
C9_Witness ==
    /\ Len(man_posted) = 1
    /\ StartsWithO(man_model_id)
    /\ {"temperature", "model"} \subseteq DOMAIN man_body_in
    /\ DOMAIN man_posted[1] = {}

\* C15: a step that ends with valves.DISABLED true has acquired no client
\* (on_startup, on_valves_updated), and a pipe invocation that ends with
\* DISABLED true has returned 'WARNING: Pipeline DISABLED', called the
\* provider zero times and left the request body as the host passed it.
C15_DisabledDoesNothing ==
    [][ /\ DISABLED' => client' = client
        /\ (DISABLED' /\ sdk_pc' = "done")
           => /\ sdk_result' = [kind |-> "content", detail |-> "WARNING: Pipeline DISABLED"]
              /\ calls' = 0
              /\ sdk_body' = sdk_body_in' ]_vars

\* a disabled pipeline was given a body whose user the remapping would replace
C15_Witness ==
    /\ DISABLED
    /\ sdk_pc = "done"
    /\ "user" \in DOMAIN sdk_body_in
    /\ sdk_body_in["user"].kind = "dict"

\* C16: an invocation of pipe that has called the provider ends with the response
\* content, a stream generator or the 'OpenAI API error: ...' string: it
\* returns no None and lets no exception escape.
C16_ResultIsContentStreamOrError ==
    (sdk_pc = "done" /\ ~ DISABLED /\ calls >= 1)
    => sdk_result.kind \in {"content", "stream", "errmsg"}

\* C17: for a model id starting with 'o' and a body with max_tokens and no
\* max_completion_tokens, the JSON body posted carries max_completion_tokens
\* equal to the body's max_tokens.
C17_MaxCompletionTokensPosted ==
    (Len(man_posted) = 1 /\ StartsWithO(man_model_id)
        /\ "max_tokens" \in DOMAIN man_body_in
        /\ "max_completion_tokens" \notin DOMAIN man_body_in)
    => /\ "max_completion_tokens" \in DOMAIN man_posted[1]
       /\ man_posted[1]["max_completion_tokens"] = man_body_in["max_tokens"]

\* ---------------------------------------------------------------------
\* Properties of stream_response
\* ---------------------------------------------------------------------

\* the chunks of cs, from the i-th on, that have a first choice with content
\* other than None and '', each with its place in cs and that content
RECURSIVE C11_Forwarded(_, _)
C11_Forwarded(cs, i) ==
    IF i > Len(cs) THEN <<>>
    ELSE IF cs[i].nchoices >= 1 /\ cs[i].content \notin {PyNone, PyStr("")}
         THEN <<[chunk |-> i, content |-> cs[i].content]>> \o C11_Forwarded(cs, i + 1)
         ELSE C11_Forwarded(cs, i + 1)

\* C11: stream_response has yielded the first choice's content of the chunks
\* delivered, in their order, once each and unchanged, leaving out only the
\* chunks with no choices and those whose content is None or ''.
C11_ChunksForwardedInOrder == yielded = C11_Forwarded(chunks, 1)

\* a stream with a chunk that is forwarded after one that is left out
C11_Witness ==
    /\ gen_pc = "exhausted"
    /\ Len(chunks) = 3
    /\ chunks[1].nchoices = 0
    /\ chunks[2].content = PyStr("")
    /\ chunks[3] = Chunk(2, PyStr("b"))
    /\ Len(yielded) = 1

\* ---------------------------------------------------------------------
\* Properties of the prompt enhancer
\* ---------------------------------------------------------------------

\* C12: every generate_chat_completion call of an inlet invocation is issued
\* with the request object and the user that invocation was given.
C12_OwnRequestAndUser ==
    \A p \in Invocations :
        \A i \in 1 .. Len(enh_issued[p]) :
            /\ enh_issued[p][i].request = enh_request[p]
            /\ enh_issued[p][i].user = enh_user[p]

\* ---------------------------------------------------------------------
\* C13 (PlantUML tool: what generate_diagram returns)
\* ---------------------------------------------------------------------
\* C13: every generate_diagram invocation that has ended after calling the
\* PlantUML server has returned a JSON object with the keys plantuml_code
\* and status, whatever the input and the server's answer were and whether
\* or not an exception was raised while the diagram was rendered.
C13_ReturnsJsonWithBothKeys ==
    \A p \in ToolInvocations :
        (tool_pc[p] = "done" /\ tool_image[p] # "-") => tool_result[p].kind = "json"

\* ---------------------------------------------------------------------
\* C14, C20 (RAG pipelines: lifecycle and pipe)
\* ---------------------------------------------------------------------
\* the ids for which an index object is stored
Built(indexes) == { id \in DOMAIN indexes.dict : indexes.dict[id] = "index" }

C20_PipeWithoutIndexReturnsNone ==
    [][/\ (/\ gh_result' # gh_result /\ gh_result'.op = "pipe"
           /\ gh_result'.arg \notin Built(gh_indexes))
            => gh_result'.outcome = "None"
       /\ (/\ gl_result' # gl_result /\ gl_result'.op = "pipe"
           /\ gl_result'.arg \notin Built(gl_indexes))
            => gl_result'.outcome = "None"]_vars

\* ---------------------------------------------------------------------
\* C18, C19 (GitHub RAG: get_repos)
\* ---------------------------------------------------------------------
\* get_repos has run, through pipes, on the valves of the current state
C18_GetReposHasRun ==
    /\ gh_repos_current
    /\ gh_result.op \in {"on_startup", "on_valves_updated"}

C18_Owners == split_strip(gh_valves.GITHUB_OWNERS, ";")

C18_Repos == split_strip(gh_valves.GITHUB_REPOS, ";")

C18_Branches == split_strip(gh_valves.GITHUB_BRANCHES, ";")

\* the four filter lists with the dict each is recorded in
C18_Filters ==
    { [list |-> filter_list(gh_valves.EXCLUDE_FILE_EXTENSIONS), dict |-> gh_ext_excludes],
      [list |-> filter_list(gh_valves.INCLUDE_FILE_EXTENSIONS), dict |-> gh_ext_includes],
      [list |-> filter_list(gh_valves.EXCLUDE_DIRECTORIES), dict |-> gh_dir_excludes],
      [list |-> filter_list(gh_valves.INCLUDE_DIRECTORIES), dict |-> gh_dir_includes] }

C18_Rejected ==
    \/ ~(Len(C18_Owners) = Len(C18_Repos) /\ Len(C18_Repos) = Len(C18_Branches))
    \/ \E f \in C18_Filters : f.list # <<>> /\ Len(f.list) # Len(C18_Repos)

C18_Id(i) == C18_Owners[i] \o <<":">> \o C18_Repos[i] \o <<":">> \o C18_Branches[i]

\* the entries are the triples, in order
C18_OneEntryPerTriple ==
    /\ Len(gh_pipelines) = Len(C18_Owners)
    /\ \A i \in 1 .. Len(C18_Owners) : gh_pipelines[i].id = C18_Id(i)

\* the filter recorded for the id of position i is the one of position j
C18_Recorded(i, j) ==
    \A f \in C18_Filters :
        /\ C18_Id(i) \in DOMAIN f.dict
        /\ f.dict[C18_Id(i)] = IF f.list # <<>> THEN f.list[j] ELSE NoneStr

\* C18 as stated: get_repos returns [] when the owners, repos and branches
\* lists differ in length or a non-empty filter list has another length than
\* the repos; otherwise one entry per triple, in order, with the id
\* owner:repo:branch, and for each id the filter of the same position is
\* recorded (None for an unset filter).
C18_FilterOfSamePosition ==
    C18_GetReposHasRun =>
        IF C18_Rejected THEN gh_pipelines = <<>>
        ELSE /\ C18_OneEntryPerTriple
             /\ \A i \in 1 .. Len(C18_Owners) : C18_Recorded(i, i)

\* C18 amended: as stated, except that the filter recorded for an id is the
\* one of the last position that has this id (the same position whenever the
\* triples are different from each other).
C18_FilterOfLastPosition ==
    C18_GetReposHasRun =>
        IF C18_Rejected THEN gh_pipelines = <<>>
        ELSE /\ C18_OneEntryPerTriple
             /\ \A i \in 1 .. Len(C18_Owners) :
                    \A j \in i .. Len(C18_Owners) :
                        (C18_Id(j) = C18_Id(i)
                            /\ \A k \in j + 1 .. Len(C18_Owners) : C18_Id(k) # C18_Id(i))
                        => C18_Recorded(i, j)

\* two different repositories with a filter each have been listed
C18_Witness ==
    /\ C18_GetReposHasRun
    /\ ~C18_Rejected
    /\ Len(gh_pipelines) = 2
    /\ gh_pipelines[1].id # gh_pipelines[2].id
    /\ gh_ext_excludes[gh_pipelines[1].id] = <<".x">>
    /\ gh_ext_excludes[gh_pipelines[2].id] = <<".y">>
    /\ gh_dir_includes[gh_pipelines[1].id] = NoneStr

\* C19: with the four filter valves at their defaults and exactly one owner,
\* one repo and one branch configured, get_repos, and so self.pipelines, has
\* exactly one entry.
C19_OneRepositoryListed ==
    (/\ C18_GetReposHasRun
     /\ gh_valves.INCLUDE_FILE_EXTENSIONS = GhDefaultValves.INCLUDE_FILE_EXTENSIONS
     /\ gh_valves.EXCLUDE_FILE_EXTENSIONS = GhDefaultValves.EXCLUDE_FILE_EXTENSIONS
     /\ gh_valves.INCLUDE_DIRECTORIES = GhDefaultValves.INCLUDE_DIRECTORIES
     /\ gh_valves.EXCLUDE_DIRECTORIES = GhDefaultValves.EXCLUDE_DIRECTORIES
     /\ Len(C18_Owners) = 1 /\ Len(C18_Repos) = 1 /\ Len(C18_Branches) = 1
     /\ C18_Owners[1] # <<>> /\ C18_Repos[1] # <<>> /\ C18_Branches[1] # <<>>)
    => Len(gh_pipelines) = 1

\* ---------------------------------------------------------------------
\* C21 (RAG pipelines: _init_embeddings, one repository fails)
\* ---------------------------------------------------------------------
\* C21: in both RAG pipelines, a turn of the loop of _init_embeddings that
\* reads its repository, whether or not loading or vectorizing raises, goes
\* on to the repositories after it, and _init_embeddings does not raise.
C21_FailureIsolated ==
    [][/\ (gh_pc = "indexing" /\ Head(gh_todo).id \in gh_read' \ gh_read)
            => /\ gh_todo' = Tail(gh_todo)
               /\ gh_pc' = "idle" => gh_result'.outcome = "returned"
       /\ (gl_pc = "indexing" /\ Head(gl_todo).id \in gl_read' \ gl_read)
            => /\ gl_todo' = Tail(gl_todo)
               /\ gl_pc' = "idle" => gl_result'.outcome = "returned"]_vars

\* ---------------------------------------------------------------------
\* C22 (GitLab RAG: lists of different lengths)
\* ---------------------------------------------------------------------
\* C22: in the GitLab pipeline, when on_valves_updated has ended under valves
\* with ENABLED true whose project paths, paths and refs differ in number,
\* the pipelines are the one placeholder entry, the call did not raise and
\* no index was built.
C22_MismatchGivesPlaceholder ==
    (/\ gl_pc = "idle" /\ gl_result.op = "on_valves_updated"
     /\ gl_valves.ENABLED
     /\ ~gl_get_repos_raises(gl_valves)
     /\ ~gl_lists_accepted(gl_lists(gl_valves)))
        => /\ gl_pipelines = <<GlPlaceholder>>
           /\ gl_result.outcome = "returned"
           /\ Built(gl_indexes) = {}

\* ---------------------------------------------------------------------
\* C23 (GitLab RAG: the repo id encoding)
\* ---------------------------------------------------------------------
\* the project path, folder path and ref configured at position i
C23_Configured(i) ==
    [project |-> split_strip(gl_valves.GITLAB_PROJECT_PATHS, ";")[i],
     path |-> split_strip(gl_valves.GITLAB_PATHS, ";")[i],
     ref |-> split_strip(gl_valves.GITLAB_REFS, ";")[i]]

\* C23: in the GitLab pipeline, the project path, folder path and ref that
\* _init_embeddings decodes from the id of the i-th entry of get_repos, and
\* passes to the readers, are the ones configured at position i.
C23_IdRoundTrips ==
    (gl_pc = "indexing" \/ gl_result.op = "on_valves_updated")
        => \A i \in 1 .. Len(gl_loaded) : gl_loaded[i] = C23_Configured(i)

\* ---------------------------------------------------------------------
\* C24, C25 (prompt enhancer: context, replacement, failure of the call)
\* ---------------------------------------------------------------------
\* the conversation ends with the user's message
C24_EndsWithUser(messages) ==
    messages # <<>> /\ messages[Len(messages)].role = "user"

\* the messages before the last one, in order
C24_AllButLast(messages) == SubSeq(messages, 1, Len(messages) - 1)

\* C24: for a conversation that ends with the user's message, every call of
\* the enhancing model carries as context all the messages but that last
\* one, in order, and the messages inlet hands back differ from the ones it
\* was given at most in the content of that last message, which is then the
\* enhanced prompt.
C24_ContextIsAllButLastUser ==
    \A p \in Invocations :
        C24_EndsWithUser(enh_messages_in[p])
            => /\ \A k \in 1 .. Len(enh_issued[p]) :
                    enh_issued[p][k].context = C24_AllButLast(enh_messages_in[p])
               /\ enh_messages[p] \in {enh_messages_in[p], replace_last(enh_messages_in[p])}

\* the status events with done=true among events
C25_Final(events) ==
    SelectSeq(events, LAMBDA ev : ev.type = "status" /\ ev.done = "True")

C26_OneFinalStatus ==
    \A p \in NewsInvocations :
        (/\ news_pc[p] = "done"
         /\ news_events[p] # <<>>
         /\ Head(news_events[p]).done = "False")
            => Len(SelectSeq(news_events[p],
                             LAMBDA ev : ev.type = "status" /\ ev.done = "True")) = 1

\* ---------------------------------------------------------------------
\* C27 (chart action: failures, with and without an emitter)
\* ---------------------------------------------------------------------
\* C27: an invocation of action on a body with a last message returns the
\* body and does not raise; when the model call or the file creation failed
\* the last message's content is the one given with the error text after
\* it; and without an emitter no event is emitted.
C27_ReturnsBodyWithOrWithoutEmitter ==
    (chart_pc = "done" /\ chart_messages_in # <<>>)
        => /\ chart_result = "body"
           /\ chart_outcome \in {"create_raises", "file_raises"}
                => chart_messages = append_to_last(chart_messages_in, "Error")
           /\ chart_emitter = "None" => chart_events = <<>>

\* ---------------------------------------------------------------------
\* C28, C29 (PlantUML tool: a failed server call, interleaved invocations)
\* ---------------------------------------------------------------------
\* the events of invocation p, whichever emitter they were given to
C28_EventsOf(p) ==
    { ev \in UNION { { tool_events[e][k] : k \in 1 .. Len(tool_events[e]) } :
                        e \in ToolInvocations } : ev.by = p }

\* C28: an invocation of generate_diagram with an emitter, which self.emitter
\* still holds, whose PlantUML server call failed has, when it returns,
\* emitted a status event with done=true that carries the error, has
\* emitted neither the image message nor the 'successfully created' status,
\* and has not reported status 'done'.
C28_ServerFailureReported ==
    \A p \in ToolInvocations :
        (/\ tool_pc[p] = "done" /\ tool_image[p] = "error" /\ tool_emitter[p] # 0
         /\ self_emitter = tool_emitter[p]
         /\ tool_result[p].kind = "json")
            => /\ \E ev \in C28_EventsOf(p) :
                    /\ ev.type = "status" /\ ev.done = "True"
                    /\ ev.description = "**ERROR:** PlantUML server error"
               /\ ~ \E ev \in C28_EventsOf(p) : ev.type = "message"
               /\ ~ \E ev \in C28_EventsOf(p) :
                        ev.description = "The PlantUML diagram has been successfully created."
               /\ tool_result[p].status # "done"

\* C29: every event an invocation of generate_diagram emits is given to
\* the emitter that was passed to that invocation.
C29_EventsGoToOwnEmitter ==
    \A e \in ToolInvocations :
        \A k \in 1 .. Len(tool_events[e]) :
            tool_emitter[tool_events[e][k].by] = e

====
